---- MODULE Spec2Model ----
(***************************************************************************)
(* A state-machine model of framework-control-native: the EC device        *)
(* transport (service/src/ec.rs), the ryzenadj wrapper and its single-     *)
(* flight TTL cache (service/src/cli/ryzen_adj.rs), and the backend        *)
(* supervisor loops with their readers (service/src/main.rs,               *)
(* windows_service.rs, fan_curve_methods.rs).                              *)
(*                                                                         *)
(* Each subsystem has its own variables and its own specification          *)
(* (SpecEc, SpecCache, SpecSup); all share Init.  Log output (println!,    *)
(* tracing) is not modelled.                                               *)
(***************************************************************************)
EXTENDS Integers, Sequences, FiniteSets, TLC

Min(a, b) == IF a <= b THEN a ELSE b

(***************************************************************************)
(*                    EC DEVICE TRANSPORT  (ec.rs)                         *)
(***************************************************************************)

\* const EC_MEMMAP_SIZE: usize = 255;
EC_MEMMAP_SIZE == 255
\* const HEADER_LEN: usize = 8;
HEADER_LEN == 8
\* const CROSEC_CMD_MAX_REQUEST: usize = 0x100;
CROSEC_CMD_MAX_REQUEST == 256
\* let paths = [ ...9 device path aliases... ];
NumPaths == 9
\* result: 0xFF, the value the frame is built with
RESULT_INIT == 255

VARIABLES
    ecPc,         \* per call slot: "idle" | "open" | "opened" | "done" | "panicked"
    ecOp,         \* the public operation the slot is running, with its arguments
    ecIdx,        \* get_ec_handle: index into paths of the next CreateFileW
    ecTried,      \* log of this call's CreateFileW attempts: <<[path, outcome], ...>>
    ecOpenRes,    \* result of get_ec_handle for this call
    ecHandle,     \* the HANDLE local of the call (NoHandle before the open)
    ecFrame,      \* the frame as the device left it (after DeviceIoControl)
    ecRet,        \* the value the call returned
    openHandles   \* the OS table of open device handles: handle -> opening call

ecVars == <<ecPc, ecOp, ecIdx, ecTried, ecOpenRes, ecHandle, ecFrame, ecRet, openHandles>>

VARIABLE
    calc    \* the last call of a decoding / computing function: [fn, in, out]

calcVars == <<calc>>

VARIABLES
    fan_loops,    \* the fan-curve loops of the process, in spawn order
    fan_tasks,    \* the one-shot fan tasks spawned and not yet run
    fan_cmd,      \* the fan command issued to the backend last, with its result
    fan_gui       \* FrameworkControlApp's fan fields, and the editor's last
                  \* call of interpolate_curve

fanVars == <<fan_loops, fan_tasks, fan_cmd, fan_gui>>

EcThreads == {"t1", "t2"}

NoHandle == 0
NoOp == [name |-> "none"]
NoFrame == [io |-> "none"]
NoRet == [kind |-> "none"]
OpenPending == [res |-> "pending", path |-> 0]

\* Outcomes of one CreateFileW: opened, ERROR_ACCESS_DENIED, any other error.
CreateOutcomes == {"ok", "denied", "other"}

ZeroBuf(n) == [i \in 1..n |-> 0]

\* cmd.buffer[..data.len()].copy_from_slice(data)
CopyFromSlice(buf, data) ==
    [i \in 1..Len(buf) |-> IF i <= Len(data) THEN data[i] ELSE buf[i]]

\* A payload one byte longer than the frame's buffer.
OversizePayload == [i \in 1..(CROSEC_CMD_MAX_REQUEST + 1) |-> 1]

\* The EC memory map exposed by the device (the byte at each offset).
\* Offsets 0x00..0x0E: temperature sensors; 0x10..0x17: 4 fan tachometers.
EcMemMap(addr) ==
    CASE addr = 0 -> 73
      [] addr = 1 -> 255
      [] addr = 2 -> 120
      [] addr = 3 -> 223
      [] addr \in 4..14 -> 255
      [] addr = 16 -> 0
      [] addr = 17 -> 16
      [] addr = 18 -> 255
      [] addr = 19 -> 255
      [] addr = 20 -> 32
      [] addr = 21 -> 3
      [] OTHER -> 0

\* The operations a caller may start.
ReadOps ==
    { [name |-> "read_ec_memory", offset |-> 0, length |-> 15],
      [name |-> "read_ec_memory", offset |-> 16, length |-> 8],
      [name |-> "read_ec_memory", offset |-> 0, length |-> EC_MEMMAP_SIZE + 1] }

SendOps ==
    { [name |-> "send_ec_command", command |-> 19, version |-> 0, data |-> <<50>>],
      [name |-> "send_ec_command", command |-> 20, version |-> 0, data |-> <<>>],
      [name |-> "send_ec_command", command |-> 48, version |-> 0, data |-> <<75, 80>>],
      [name |-> "send_ec_command", command |-> 153, version |-> 0, data |-> OversizePayload] }

CheckOps == { [name |-> "check_connection"] }

EcOps == ReadOps \cup SendOps \cup CheckOps

\* The operations run concurrently in SpecEcConc: one of each kind, and the
\* oversize payload.
ConcOps ==
    { [name |-> "check_connection"],
      [name |-> "read_ec_memory", offset |-> 0, length |-> 15],
      [name |-> "send_ec_command", command |-> 19, version |-> 0, data |-> <<50>>],
      [name |-> "send_ec_command", command |-> 153, version |-> 0, data |-> OversizePayload] }

\* What the device may do to a transfer frame: the DeviceIoControl outcome,
\* lpBytesReturned, the result field it leaves, the bytes it writes to the buffer.
XcmdResponses ==
    [ io : {"ok", "denied", "error"},
      returned : {2, 300},
      result : {0, 1, RESULT_INIT},
      bytes : {<<>>, <<9, 8, 7>>} ]

\* The device responses drawn in SpecEcConc: every DeviceIoControl outcome,
\* a zero and a nonzero result.
ConcResponses ==
    [ io : {"ok", "denied", "error"},
      returned : {2},
      result : {0, 1},
      bytes : {<<>>} ]

RdmemResponses == [ io : {"ok", "error"} ]

\* A payload that fills the frame's buffer.
FullPayload == [i \in 1..CROSEC_CMD_MAX_REQUEST |-> (i % 7) + 1]

\* The payloads sent to an echoing device.
EchoOps ==
    { [name |-> "send_ec_command", command |-> 0, version |-> 0, data |-> d] :
        d \in { <<>>, <<50>>, <<75, 80>>, <<1, 2, 3, 4>>, FullPayload } }

\* An echoing device: it leaves the first n bytes of the buffer as sent, sets
\* result 0, reports n bytes, and may leave junk in the bytes from n on.
EchoResponses(buffer) ==
    { [ io |-> "ok", returned |-> n, result |-> 0,
        bytes |-> [i \in 1..CROSEC_CMD_MAX_REQUEST |->
                     IF i <= n THEN buffer[i] ELSE junk] ] :
        n \in {0, 1, 2, 4, CROSEC_CMD_MAX_REQUEST, CROSEC_CMD_MAX_REQUEST + 44},
        junk \in {0, 170} }

\* One iteration of the loop `for p in paths.iter()`: the CreateFileW outcome
\* for paths[i] decides return Ok(h) / return Err(AccessDenied) / next path /
\* Err(DriverMissing) after the last.
get_ec_handle_step_ContinuesPastDenied(i, outcome) ==
    CASE outcome = "ok" -> [res |-> "handle", path |-> i]
      [] OTHER -> IF i = NumPaths THEN [res |-> "DriverMissing", path |-> 0]
                                  ELSE OpenPending

get_ec_handle_step(i, outcome) ==
    CASE outcome = "ok" -> [res |-> "handle", path |-> i]
      [] outcome = "denied" -> [res |-> "AccessDenied", path |-> 0]
      [] OTHER -> IF i = NumPaths THEN [res |-> "DriverMissing", path |-> 0]
                                  ELSE OpenPending

\* CreateFileW hands out a handle value not currently open (values are reused).
NewHandle(open) ==
    CHOOSE h \in 1..(Cardinality(DOMAIN open) + 1) :
        /\ h \notin DOMAIN open
        /\ \A g \in 1..(h - 1) : g \in DOMAIN open

\* The OS side of a successful CreateFileW: a fresh handle owned by the call.
OpenDevice(open, t) == open @@ (NewHandle(open) :> t)

HandleOf(open, t) ==
    IF \E h \in DOMAIN open : open[h] = t
        THEN CHOOSE h \in DOMAIN open : open[h] = t
        ELSE 1

\* close_ec_handle(handle)
close_ec_handle(open, h) == [g \in (DOMAIN open) \ {h} |-> open[g]]

\* The frame send_ec_command builds (before the payload copy).
EcCommand(command, version, data) ==
    [ version |-> version,
      command |-> command,
      outsize |-> Len(data),
      insize  |-> CROSEC_CMD_MAX_REQUEST - HEADER_LEN,
      result  |-> RESULT_INIT,
      buffer  |-> ZeroBuf(CROSEC_CMD_MAX_REQUEST) ]

\* DeviceIoControl(IOCTL_CROSEC_XCMD): the frame as the device leaves it.
DeviceXcmd(cmd, resp) ==
    [cmd EXCEPT !.result = resp.result,
                !.buffer = CopyFromSlice(cmd.buffer, resp.bytes)]

\* The part of send_ec_command after DeviceIoControl: what is returned and
\* whether close_ec_handle ran on that path.
send_ec_command_result_IgnoresResult(cmd, io, returned) ==
    IF io = "denied"
        THEN [ret |-> [kind |-> "AccessDenied"], closed |-> TRUE]
        ELSE [ret |-> [kind |-> "Ok",
                       bytes |-> SubSeq(cmd.buffer, 1, Min(returned, CROSEC_CMD_MAX_REQUEST))],
              closed |-> TRUE]

send_ec_command_result_WholeBuffer(cmd, io, returned) ==
    IF io = "denied"
        THEN [ret |-> [kind |-> "AccessDenied"], closed |-> TRUE]
    ELSE IF cmd.result # 0
        THEN [ret |-> [kind |-> "IoError", code |-> cmd.result], closed |-> TRUE]
    ELSE [ret |-> [kind |-> "Ok", bytes |-> cmd.buffer], closed |-> TRUE]

send_ec_command_result_LeaksOnError(cmd, io, returned) ==
    IF io = "denied"
        THEN [ret |-> [kind |-> "AccessDenied"], closed |-> TRUE]
    ELSE IF cmd.result # 0
        THEN [ret |-> [kind |-> "IoError", code |-> cmd.result], closed |-> FALSE]
    ELSE [ret |-> [kind |-> "Ok",
                   bytes |-> SubSeq(cmd.buffer, 1, Min(returned, CROSEC_CMD_MAX_REQUEST))],
          closed |-> TRUE]

send_ec_command_result(cmd, io, returned) ==
    IF io = "denied"
        THEN [ret |-> [kind |-> "AccessDenied"], closed |-> TRUE]
    ELSE IF cmd.result # 0
        THEN [ret |-> [kind |-> "IoError", code |-> cmd.result], closed |-> TRUE]
    ELSE [ret |-> [kind |-> "Ok",
                   bytes |-> SubSeq(cmd.buffer, 1, Min(returned, CROSEC_CMD_MAX_REQUEST))],
          closed |-> TRUE]

\* DeviceIoControl(IOCTL_CROSEC_RDMEM): the ReadMem buffer as the device leaves
\* it; a failed control operation leaves the zero-initialised buffer.
DeviceRdmem(offset, bytes, io) ==
    [i \in 1..EC_MEMMAP_SIZE |->
        IF io = "ok" /\ i <= bytes THEN EcMemMap(offset + i - 1) ELSE 0]

EcInit ==
    /\ ecPc = [t \in EcThreads |-> "idle"]
    /\ ecOp = [t \in EcThreads |-> NoOp]
    /\ ecIdx = [t \in EcThreads |-> 0]
    /\ ecTried = [t \in EcThreads |-> <<>>]
    /\ ecOpenRes = [t \in EcThreads |-> OpenPending]
    /\ ecHandle = [t \in EcThreads |-> NoHandle]
    /\ ecFrame = [t \in EcThreads |-> NoFrame]
    /\ ecRet = [t \in EcThreads |-> NoRet]
    /\ openHandles = << >>

\* A caller enters read_ec_memory / send_ec_command / check_connection; the
\* first thing each does is get_ec_handle().
EcCall(t, ops) ==
    /\ ecPc[t] = "idle"
    /\ \E op \in ops : ecOp' = [ecOp EXCEPT ![t] = op]
    /\ ecPc' = [ecPc EXCEPT ![t] = "open"]
    /\ ecIdx' = [ecIdx EXCEPT ![t] = 1]
    /\ ecTried' = [ecTried EXCEPT ![t] = <<>>]
    /\ ecOpenRes' = [ecOpenRes EXCEPT ![t] = OpenPending]
    /\ ecHandle' = [ecHandle EXCEPT ![t] = NoHandle]
    /\ ecFrame' = [ecFrame EXCEPT ![t] = NoFrame]
    /\ ecRet' = [ecRet EXCEPT ![t] = NoRet]
    /\ UNCHANGED openHandles

\* The value a public operation returns when get_ec_handle fails:
\* read_ec_memory: `get_ec_handle().ok()?` -> None; the others: `?` -> Err(e).
OpenFailureRet(op, res) ==
    IF op.name = "read_ec_memory" THEN [kind |-> "None"] ELSE [kind |-> res]

\* get_ec_handle: one CreateFileW on paths[ecIdx[t]].
EcCreateFile(t) ==
    /\ ecPc[t] = "open"
    /\ \E outcome \in CreateOutcomes :
        LET r == get_ec_handle_step(ecIdx[t], outcome) IN
        /\ ecTried' = [ecTried EXCEPT ![t] =
                          Append(@, [path |-> ecIdx[t], outcome |-> outcome])]
        /\ ecOpenRes' = [ecOpenRes EXCEPT ![t] = r]
        /\ CASE r.res = "handle" ->
                  /\ openHandles' = OpenDevice(openHandles, t)
                  /\ ecHandle' = [ecHandle EXCEPT ![t] = HandleOf(openHandles', t)]
                  /\ ecPc' = [ecPc EXCEPT ![t] = "opened"]
                  /\ UNCHANGED <<ecIdx, ecRet>>
             [] r.res = "pending" ->
                  /\ ecIdx' = [ecIdx EXCEPT ![t] = @ + 1]
                  /\ UNCHANGED <<openHandles, ecHandle, ecPc, ecRet>>
             [] OTHER ->
                  /\ ecRet' = [ecRet EXCEPT ![t] = OpenFailureRet(ecOp[t], r.res)]
                  /\ ecPc' = [ecPc EXCEPT ![t] = "done"]
                  /\ UNCHANGED <<openHandles, ecHandle, ecIdx>>
    /\ UNCHANGED <<ecOp, ecFrame>>

\* get_ec_handle has returned and the operation goes on: its locals are gone.
EcForgetOpen(t) ==
    /\ ecIdx' = [ecIdx EXCEPT ![t] = 0]
    /\ ecTried' = [ecTried EXCEPT ![t] = <<>>]
    /\ ecOpenRes' = [ecOpenRes EXCEPT ![t] = OpenPending]

\* check_connection: get_ec_handle()?; close_ec_handle(handle); Ok(())
check_connection(t) ==
    /\ ecPc[t] = "opened"
    /\ ecOp[t].name = "check_connection"
    /\ openHandles' = close_ec_handle(openHandles, ecHandle[t])
    /\ ecRet' = [ecRet EXCEPT ![t] = [kind |-> "Unit"]]
    /\ ecPc' = [ecPc EXCEPT ![t] = "done"]
    /\ EcForgetOpen(t)
    /\ UNCHANGED <<ecOp, ecHandle, ecFrame>>

\* read_ec_memory after the open: DeviceIoControl (result ignored),
\* close_ec_handle, Some(rm.buffer[..length]) -- the slice panics when
\* length exceeds the buffer.
read_ec_memory(t) ==
    /\ ecPc[t] = "opened"
    /\ ecOp[t].name = "read_ec_memory"
    /\ \E resp \in RdmemResponses :
        LET buf == DeviceRdmem(ecOp[t].offset, ecOp[t].length, resp.io) IN
        /\ ecFrame' = [ecFrame EXCEPT ![t] = [io |-> resp.io, buffer |-> buf]]
        /\ openHandles' = close_ec_handle(openHandles, ecHandle[t])
        /\ IF ecOp[t].length > EC_MEMMAP_SIZE
              THEN /\ ecPc' = [ecPc EXCEPT ![t] = "panicked"]
                   /\ UNCHANGED ecRet
              ELSE /\ ecPc' = [ecPc EXCEPT ![t] = "done"]
                   /\ ecRet' = [ecRet EXCEPT ![t] =
                          [kind |-> "Some", bytes |-> SubSeq(buf, 1, ecOp[t].length)]]
    /\ EcForgetOpen(t)
    /\ UNCHANGED <<ecOp, ecHandle>>

\* send_ec_command after the open: build the frame, copy the payload (panics
\* when it is longer than the buffer, the handle still open), DeviceIoControl,
\* inspect, close, return.
send_ec_command(t, resps) ==
    /\ ecPc[t] = "opened"
    /\ ecOp[t].name = "send_ec_command"
    /\ LET op == ecOp[t]
           cmd0 == EcCommand(op.command, op.version, op.data)
       IN  IF Len(op.data) > CROSEC_CMD_MAX_REQUEST
              THEN /\ ecPc' = [ecPc EXCEPT ![t] = "panicked"]
                   /\ UNCHANGED <<ecFrame, ecRet, openHandles>>
              ELSE \E resp \in resps :
                     LET cmd1 == [cmd0 EXCEPT !.buffer = CopyFromSlice(@, op.data)]
                         cmd2 == DeviceXcmd(cmd1, resp)
                         out  == send_ec_command_result(cmd2, resp.io, resp.returned)
                     IN  /\ ecFrame' = [ecFrame EXCEPT ![t] =
                                [io |-> resp.io, returned |-> resp.returned,
                                 result |-> cmd2.result, buffer |-> cmd2.buffer]]
                         /\ ecRet' = [ecRet EXCEPT ![t] = out.ret]
                         /\ openHandles' = IF out.closed
                                             THEN close_ec_handle(openHandles, ecHandle[t])
                                             ELSE openHandles
                         /\ ecPc' = [ecPc EXCEPT ![t] = "done"]
    /\ EcForgetOpen(t)
    /\ UNCHANGED <<ecOp, ecHandle>>

\* The caller takes the returned value; the slot is free for the next call.
EcReturn(t) ==
    /\ ecPc[t] = "done"
    /\ ecPc' = [ecPc EXCEPT ![t] = "idle"]
    /\ ecOp' = [ecOp EXCEPT ![t] = NoOp]
    /\ ecIdx' = [ecIdx EXCEPT ![t] = 0]
    /\ ecTried' = [ecTried EXCEPT ![t] = <<>>]
    /\ ecOpenRes' = [ecOpenRes EXCEPT ![t] = OpenPending]
    /\ ecHandle' = [ecHandle EXCEPT ![t] = NoHandle]
    /\ ecFrame' = [ecFrame EXCEPT ![t] = NoFrame]
    /\ ecRet' = [ecRet EXCEPT ![t] = NoRet]
    /\ UNCHANGED openHandles


(***************************************************************************)
(*     SINGLE-FLIGHT TTL CACHE (utils::global_cache) AND RyzenAdj          *)
(***************************************************************************)

\* const INFO_TTL: Duration = Duration::from_millis(2000);
INFO_TTL == 2000
\* Milliseconds by which one Tick ages the cache entries.
ClockStep == 1000
\* Entry ages are kept up to MaxAge; an older entry is as stale as one of MaxAge.
MaxAge == 3000
\* consecutive_errors is kept up to MaxErrors (it only gates logging).
MaxErrors == 2

VARIABLES
    cache,        \* key -> [res, age]: the stored result and now - fetched_at
    inflight,     \* key -> [cache_errors, waiters]: the fetch in flight for key
    cPc,          \* per cache caller: "idle" | "waiting" | "done"
    cRes,         \* per cache caller: the result its call returned
    cHow,         \* per cache caller: how the call got it: "hit" | "joined" | "fetched"
    ryzEnv,       \* "flaky": ryzenadj may fail to resolve or run; "good": it works
    ryzenadj,     \* AppState.ryzenadj: "None" | "Some"
    ryzPc,        \* position of initialize / the resolver task for ryzenadj
    ryzErrors,    \* the resolver's consecutive_errors
    ryzTick,      \* what the resolver's current tick did: "none" | "skipped" | "new"
    rguards       \* slot -> the tasks holding a read guard on its RwLock

cacheVars == <<cache, inflight, cPc, cRes, cHow>>
ryzVars == <<ryzEnv, ryzenadj, ryzPc, ryzErrors, ryzTick>>

VARIABLES
    ftEnv,           \* "flaky": framework_tool may fail; "good": it works
    framework_tool,  \* AppState.framework_tool: "None" | "Some"
    ftPc,            \* position of initialize / the resolver task
    ftCurrent,       \* the resolver's local `current` (clone of the slot)
    ftErrors,        \* the resolver's consecutive_errors
    ftStreak,        \* failed versions()/new() calls since the last success
    wguards,         \* slot -> the task holding the write guard, or "none"
    rdPc,            \* per reader task: "off" | "lock" | "held" | "sleep"
    procMode,        \* "none" | "gui" | "service": what the process runs
    guiObs           \* the slot values update_data saw (last two, distinct)

ftVars == <<ftEnv, framework_tool, ftPc, ftCurrent, ftErrors, ftStreak>>
lockVars == <<rguards, wguards>>
readerVars == <<rdPc, procMode, guiObs>>

\* "new": the validation call of RyzenAdj::new; "r1", "r2": callers of info().
CacheCallers == {"new", "r1", "r2"}
InfoReaders == {"r1", "r2"}

Slots == {"framework_tool", "ryzenadj"}

NoRes == [ok |-> FALSE, v |-> "none"]

\* Results of the fetch closure `run(&["--info"]).await?; Ok(parse_info(&raw))`:
\* a parsed RyzenAdjInfo, or the error string of run.
OkInfos == { [ok |-> TRUE, v |-> "infoA"], [ok |-> TRUE, v |-> "infoB"] }
ErrInfos == { [ok |-> FALSE, v |-> "exit 1"] }

RunInfoOutcomes(env) == IF env = "good" THEN OkInfos ELSE OkInfos \cup ErrInfos

\* resolve_ryzenadj(): whether a ryzenadj binary is found.
ResolveOutcomes(env) == IF env = "good" THEN {TRUE} ELSE BOOLEAN

Put(f, k, v) == [x \in (DOMAIN f) \cup {k} |-> IF x = k THEN v ELSE f[x]]
Del(f, k) == [x \in (DOMAIN f) \ {k} |-> f[x]]

\* An entry is served only while now - fetched_at < ttl.
Live(key, ttl) == key \in DOMAIN cache /\ cache[key].age < ttl

\* A cache that starts a fetch whenever no live entry exists.
cache_get_or_update_NoJoin(c, key, ttl, cache_errors) ==
    IF Live(key, ttl)
        THEN /\ cPc' = [cPc EXCEPT ![c] = "done"]
             /\ cRes' = [cRes EXCEPT ![c] = cache[key].res]
             /\ cHow' = [cHow EXCEPT ![c] = "hit"]
             /\ UNCHANGED <<cache, inflight>>
    ELSE /\ inflight' = Put(inflight, key, [cache_errors |-> cache_errors, waiters |-> {c}])
         /\ cPc' = [cPc EXCEPT ![c] = "waiting"]
         /\ cHow' = [cHow EXCEPT ![c] = "fetched"]
         /\ UNCHANGED <<cache, cRes>>

\* global_cache::cache_get_or_update(key, ttl, cache_errors, fetch) as caller c
\* enters it: a live entry is returned at once; else the call joins the fetch
\* in flight for key; else it starts the fetch.
cache_get_or_update(c, key, ttl, cache_errors) ==
    IF Live(key, ttl)
        THEN /\ cPc' = [cPc EXCEPT ![c] = "done"]
             /\ cRes' = [cRes EXCEPT ![c] = cache[key].res]
             /\ cHow' = [cHow EXCEPT ![c] = "hit"]
             /\ UNCHANGED <<cache, inflight>>
    ELSE IF key \in DOMAIN inflight
        THEN /\ inflight' = [inflight EXCEPT ![key].waiters = @ \cup {c}]
             /\ cPc' = [cPc EXCEPT ![c] = "waiting"]
             /\ cHow' = [cHow EXCEPT ![c] = "joined"]
             /\ UNCHANGED <<cache, cRes>>
    ELSE /\ inflight' = Put(inflight, key, [cache_errors |-> cache_errors, waiters |-> {c}])
         /\ cPc' = [cPc EXCEPT ![c] = "waiting"]
         /\ cHow' = [cHow EXCEPT ![c] = "fetched"]
         /\ UNCHANGED <<cache, cRes>>

\* The fetch in flight for key ends with result out: it is relayed to every
\* waiter; a success is stored with a fresh timestamp, a failure only when the
\* fetch was started with cache_errors.
cache_fetch_done(key, out) ==
    /\ cPc' = [c \in CacheCallers |->
                 IF c \in inflight[key].waiters THEN "done" ELSE cPc[c]]
    /\ cRes' = [c \in CacheCallers |->
                 IF c \in inflight[key].waiters THEN out ELSE cRes[c]]
    /\ cache' = IF out.ok \/ inflight[key].cache_errors
                   THEN Put(cache, key, [res |-> out, age |-> 0])
                   ELSE cache
    /\ inflight' = Del(inflight, key)
    /\ UNCHANGED cHow

\* The key info_with_error_cache passes: "ryzenadj.info" on every call.
InfoCacheKey_PerFlag(cache_errors) ==
    IF cache_errors THEN "ryzenadj.info" ELSE "ryzenadj.info.fresh"

InfoCacheKey(cache_errors) == "ryzenadj.info"

\* The ttl info_with_error_cache passes.
InfoTtlArg_Longer == INFO_TTL + ClockStep

InfoTtlArg == INFO_TTL

\* RyzenAdj::new validates with info_with_error_cache(false).
NewCacheErrors_True == TRUE

NewCacheErrors == FALSE

\* RyzenAdj::info is info_with_error_cache(true).
InfoCacheErrors == TRUE

\* RyzenAdj::info_with_error_cache(cache_errors), entered by caller c.
info_with_error_cache(c, cache_errors) ==
    cache_get_or_update(c, InfoCacheKey(cache_errors), InfoTtlArg, cache_errors)

CacheInit ==
    /\ cache = << >>
    /\ inflight = << >>
    /\ cPc = [c \in CacheCallers |-> "idle"]
    /\ cRes = [c \in CacheCallers |-> NoRes]
    /\ cHow = [c \in CacheCallers |-> "none"]

RyzInit ==
    /\ ryzEnv = "flaky"
    /\ ryzenadj = "None"
    /\ ryzPc = "init"
    /\ ryzErrors = 0
    /\ ryzTick = "none"

\* Time passes: every stored entry grows older.
Tick ==
    /\ \E k \in DOMAIN cache : cache[k].age < MaxAge
    /\ cache' = [k \in DOMAIN cache |->
                   [cache[k] EXCEPT !.age = Min(@ + ClockStep, MaxAge)]]
    /\ UNCHANGED <<inflight, cPc, cRes, cHow, ryzVars, lockVars, ftVars, readerVars, ecVars, calcVars, fanVars>>

\* The ryzenadj process of the fetch in flight exits (or fails to spawn, or
\* times out after 60 s): the closure returns and the cache relays the result.
FetchComplete ==
    /\ \E key \in DOMAIN inflight :
         \E out \in RunInfoOutcomes(ryzEnv) : cache_fetch_done(key, out)
    /\ UNCHANGED <<ryzVars, lockVars, ftVars, readerVars, ecVars, calcVars, fanVars>>

\* A holder of a RyzenAdj handle (taken from the slot) calls info().
InfoCall(c) ==
    /\ c \in InfoReaders
    /\ cPc[c] = "idle"
    /\ ryzenadj = "Some"
    /\ info_with_error_cache(c, InfoCacheErrors)
    /\ UNCHANGED <<ryzVars, lockVars, ftVars, readerVars, ecVars, calcVars, fanVars>>

\* info() has returned to its caller.
InfoReturn(c) ==
    /\ c \in InfoReaders
    /\ cPc[c] = "done"
    /\ cPc' = [cPc EXCEPT ![c] = "idle"]
    /\ cRes' = [cRes EXCEPT ![c] = NoRes]
    /\ cHow' = [cHow EXCEPT ![c] = "none"]
    /\ UNCHANGED <<cache, inflight, ryzVars, lockVars, ftVars, readerVars, ecVars, calcVars, fanVars>>

\* Callers that take the handle whatever RyzenAdj::new returned.
RyzAfterNew_IgnoresResult(ok) ==
    IF ryzPc \in {"init", "init_wait"}
        THEN /\ ryzenadj' = "Some"
             /\ ryzPc' = "loop"
             /\ UNCHANGED <<ryzErrors, ryzTick>>
    ELSE /\ ryzPc' = "write"
         /\ UNCHANGED <<ryzenadj, ryzErrors, ryzTick>>

\* What follows RyzenAdj::new returning, up to the caller's next await.
\* In initialize: the slot is created with new().await.ok() and the resolver
\* is spawned.  In the resolver: Ok -> `*ryz_lock.write().await = Some(..)` is
\* awaited; Err -> consecutive_errors += 1, then the sleep.
RyzAfterNew(ok) ==
    IF ryzPc \in {"init", "init_wait"}
        THEN /\ ryzenadj' = IF ok THEN "Some" ELSE "None"
             /\ ryzPc' = "loop"
             /\ UNCHANGED <<ryzErrors, ryzTick>>
    ELSE IF ok
        THEN /\ ryzPc' = "write"
             /\ UNCHANGED <<ryzenadj, ryzErrors, ryzTick>>
    ELSE /\ ryzErrors' = Min(ryzErrors + 1, MaxErrors)
         /\ ryzPc' = "sleep"
         /\ UNCHANGED <<ryzenadj, ryzTick>>

\* RyzenAdj::new up to its first suspension: resolve_ryzenadj()?, then the
\* validation call info_with_error_cache(false).
RyzenAdj_new ==
    /\ ryzPc \in {"init", "new"}
    /\ \E found \in ResolveOutcomes(ryzEnv) :
         IF found
            THEN /\ info_with_error_cache("new", NewCacheErrors)
                 /\ ryzPc' = IF ryzPc = "init" THEN "init_wait" ELSE "new_wait"
                 /\ UNCHANGED <<ryzenadj, ryzErrors, ryzTick>>
            ELSE /\ RyzAfterNew(FALSE)
                 /\ UNCHANGED cacheVars
    /\ UNCHANGED <<ryzEnv, lockVars, ftVars, readerVars, ecVars, calcVars, fanVars>>

\* The validation call has returned: Err -> "ryzenadj not runnable", Ok -> Ok(cli).
RyzenAdj_new_validated ==
    /\ ryzPc \in {"init_wait", "new_wait"}
    /\ cPc["new"] = "done"
    /\ RyzAfterNew(cRes["new"].ok)
    /\ cPc' = [cPc EXCEPT !["new"] = "idle"]
    /\ cRes' = [cRes EXCEPT !["new"] = NoRes]
    /\ cHow' = [cHow EXCEPT !["new"] = "none"]
    /\ UNCHANGED <<cache, inflight, ryzEnv, lockVars, ftVars, readerVars, ecVars, calcVars, fanVars>>

\* The names under which the two resolver tasks hold guards.
ResolverTask(slot) ==
    IF slot = "framework_tool" THEN "ft_resolver" ELSE "ryz_resolver"

\* What becomes of the read guard a resolver takes at the top of its tick:
\* `{ ryz_lock.read().await.is_none() }` and `{ ft_lock.read().await.clone() }`
\* are blocks, so the guard is a temporary dropped where the block ends,
\* before the tick goes on.  ("held": bound to a variable of the loop body,
\* it would live until the iteration ends.)
guard_after_read_KeptInFt(slot) ==
    IF slot = "framework_tool" THEN "held" ELSE "dropped"

guard_after_read(slot) == "dropped"

\* The read guards after a resolver's read of its slot.
ResolverReadGuards(slot) ==
    IF guard_after_read(slot) = "held"
        THEN [rguards EXCEPT ![slot] = @ \cup {ResolverTask(slot)}]
        ELSE rguards

\* The read guards after a resolver's iteration has ended.
ResolverTickEnds(slot) ==
    IF guard_after_read(slot) = "held"
        THEN [rguards EXCEPT ![slot] = @ \ {ResolverTask(slot)}]
        ELSE rguards

\* spawn_ryzenadj_resolver, top of the loop:
\* `let is_missing = { ryz_lock.read().await.is_none() };  if is_missing {..}`.
\* Nothing is done in a tick that finds the slot Some.
RyzResolverCheck ==
    /\ ryzPc = "loop"
    /\ IF ryzenadj = "None"
          THEN ryzPc' = "new" /\ ryzTick' = "new"
          ELSE ryzPc' = "sleep" /\ ryzTick' = "skipped"
    /\ rguards' = ResolverReadGuards("ryzenadj")
    /\ UNCHANGED <<cacheVars, ryzEnv, ryzenadj, ryzErrors, wguards, ftVars, readerVars, ecVars, calcVars, fanVars>>

\* `*ryz_lock.write().await = Some(new_ryz); consecutive_errors = 0;`
\* The write lock is granted once no read guard is held.
RyzResolverWrite ==
    /\ ryzPc = "write"
    /\ rguards["ryzenadj"] = {}
    /\ wguards["ryzenadj"] = "none"
    /\ ryzenadj' = "Some"
    /\ ryzErrors' = 0
    /\ ryzPc' = "sleep"
    /\ UNCHANGED <<cacheVars, ryzEnv, ryzTick, lockVars, ftVars, readerVars, ecVars, calcVars, fanVars>>

\* sleep(Duration::from_secs(5)).await ends.
RyzResolverSleep ==
    /\ ryzPc = "sleep"
    /\ ryzPc' = "loop"
    /\ rguards' = ResolverTickEnds("ryzenadj")
    /\ UNCHANGED <<cacheVars, ryzEnv, ryzenadj, ryzErrors, ryzTick, wguards, ftVars, readerVars, ecVars, calcVars, fanVars>>

\* The ryzenadj installation starts working / stops working.
RyzEnvChange ==
    /\ ryzEnv' = IF ryzEnv = "good" THEN "flaky" ELSE "good"
    /\ UNCHANGED <<cacheVars, ryzenadj, ryzPc, ryzErrors, ryzTick, lockVars, ftVars, readerVars, ecVars, calcVars, fanVars>>

LocksInit == rguards = [s \in Slots |-> {}]

RyzSupervisor ==
    \/ RyzenAdj_new
    \/ RyzenAdj_new_validated
    \/ RyzResolverCheck
    \/ RyzResolverWrite
    \/ RyzResolverSleep

(***************************************************************************)
(*        THE framework_tool SUPERVISOR AND THE READERS OF THE SLOTS       *)
(***************************************************************************)

\* The count of consecutive failed probes/attempts is kept up to MaxStreak.
MaxStreak == 3
\* At most MaxSpawned one-shot GUI actions are in flight at a time.
MaxSpawned == 1


\* apply_fan_curve's spawned loop and run_fan_curve_service's loop.
Loops == {"fan_curve", "service"}
\* The tasks spawned by the GUI actions.
OneShots == {"apply_fan_speed", "reset_fan_to_auto", "apply_charge_limit",
             "apply_power_settings"}
Readers == Loops \cup OneShots

\* The slot a reader task locks.
ReaderSlot(task) ==
    IF task = "apply_power_settings" THEN "ryzenadj" ELSE "framework_tool"

\* The lock a reader task takes on its slot: `.read().await`.
ReaderLock_WriteInFanCurve(task) == IF task = "fan_curve" THEN "write" ELSE "read"

ReaderLock(task) == "read"

SlotValue(slot) == IF slot = "framework_tool" THEN framework_tool ELSE ryzenadj

\* A supervisor is suspended in `lock.write().await`.
WriterWaiting(slot) ==
    IF slot = "framework_tool" THEN ftPc = "write" ELSE ryzPc = "write"

\* versions(), FrameworkTool::new(), resolve_or_install(): Ok or Err.
ToolOutcomes(env) == IF env = "good" THEN {TRUE} ELSE BOOLEAN

\* What the resolver's tick attempts: `if let Some(cli) = current` -> versions(),
\* else FrameworkTool::new().
resolver_attempt_GivesUp(current, errors) ==
    IF current = "Some" THEN "versions"
    ELSE IF errors >= MaxErrors THEN "sleep" ELSE "new"

resolver_attempt(current, errors) ==
    IF current = "Some" THEN "versions" ELSE "new"

\* What follows the attempt: a failed versions() and a successful new() go on
\* to `*ft_lock.write().await = ..`; a failed new() counts the error.
resolver_after_attempt_KeepsOnFailure(attempt, ok) ==
    IF attempt = "versions" THEN "sleep"
    ELSE IF ok THEN "write" ELSE "count"

resolver_after_attempt(attempt, ok) ==
    IF attempt = "versions"
        THEN IF ok THEN "sleep" ELSE "write"
        ELSE IF ok THEN "write" ELSE "count"

FtInit ==
    /\ ftEnv = "flaky"
    /\ framework_tool = "None"
    /\ ftPc = "init"
    /\ ftCurrent = "None"
    /\ ftErrors = 0
    /\ ftStreak = 0

ReadersInit ==
    /\ wguards = [s \in Slots |-> "none"]
    /\ rdPc = [r \in Readers |-> "off"]
    /\ procMode = "none"
    /\ guiObs = << >>

\* AppState::initialize, second half: the slot is created with
\* resolve_or_install().await.ok() and the resolver is spawned.
FtInitialize ==
    /\ ftPc = "init"
    /\ ryzPc \notin {"init", "init_wait"}
    /\ \E ok \in ToolOutcomes(ftEnv) :
         framework_tool' = IF ok THEN "Some" ELSE "None"
    /\ ftPc' = "loop"
    /\ UNCHANGED <<ftEnv, ftCurrent, ftErrors, ftStreak>>
    /\ UNCHANGED <<cacheVars, ryzVars, lockVars, readerVars, ecVars, calcVars, fanVars>>

\* spawn_framework_tool_resolver, top of the loop:
\* `let current = { ft_lock.read().await.clone() };`
FtResolverRead ==
    /\ ftPc = "loop"
    /\ wguards["framework_tool"] = "none"
    /\ ftCurrent' = framework_tool
    /\ ftPc' = resolver_attempt(framework_tool, ftErrors)
    /\ rguards' = ResolverReadGuards("framework_tool")
    /\ UNCHANGED <<ftEnv, framework_tool, ftErrors, ftStreak>>
    /\ UNCHANGED <<cacheVars, ryzVars, wguards, readerVars, ecVars, calcVars, fanVars>>

\* cli.versions().await / FrameworkTool::new().await returns.
FtResolverAttempt ==
    /\ ftPc \in {"versions", "new"}
    /\ \E ok \in ToolOutcomes(ftEnv) :
         /\ ftStreak' = IF ok THEN 0 ELSE Min(ftStreak + 1, MaxStreak)
         /\ LET after == resolver_after_attempt(ftPc, ok) IN
              /\ ftPc' = IF after = "count" THEN "sleep" ELSE after
              /\ ftErrors' = IF after = "count"
                                THEN Min(ftErrors + 1, MaxErrors) ELSE ftErrors
    /\ UNCHANGED <<ftEnv, framework_tool, ftCurrent>>
    /\ UNCHANGED <<cacheVars, ryzVars, lockVars, readerVars, ecVars, calcVars, fanVars>>

\* `*ft_lock.write().await = None` after a failed versions();
\* `*ft_lock.write().await = Some(new_cli)` after a successful new();
\* then `consecutive_errors = 0`.  Granted once no guard is held.
FtResolverWrite ==
    /\ ftPc = "write"
    /\ rguards["framework_tool"] = {}
    /\ wguards["framework_tool"] = "none"
    /\ framework_tool' = IF ftCurrent = "Some" THEN "None" ELSE "Some"
    /\ ftErrors' = 0
    /\ ftPc' = "sleep"
    /\ UNCHANGED <<ftEnv, ftCurrent, ftStreak>>
    /\ UNCHANGED <<cacheVars, ryzVars, lockVars, readerVars, ecVars, calcVars, fanVars>>

\* sleep(Duration::from_secs(5)).await ends.
FtResolverSleep ==
    /\ ftPc = "sleep"
    /\ ftPc' = "loop"
    /\ rguards' = ResolverTickEnds("framework_tool")
    /\ UNCHANGED <<ftEnv, framework_tool, ftCurrent, ftErrors, ftStreak>>
    /\ UNCHANGED <<cacheVars, ryzVars, wguards, readerVars, ecVars, calcVars, fanVars>>

\* The framework_tool installation starts working / stops working.
FtEnvChange ==
    /\ ftEnv' = IF ftEnv = "good" THEN "flaky" ELSE "good"
    /\ UNCHANGED <<framework_tool, ftPc, ftCurrent, ftErrors, ftStreak>>
    /\ UNCHANGED <<cacheVars, ryzVars, lockVars, readerVars, ecVars, calcVars, fanVars>>

FtSupervisor ==
    \/ FtInitialize
    \/ FtResolverRead
    \/ FtResolverAttempt
    \/ FtResolverWrite
    \/ FtResolverSleep

\* Where a reader task goes when its `if let Some(..) = slot.read().await.as_ref()`
\* statement ends: a loop sleeps, a one-shot task ends.
ReaderDone(task) == IF task \in Loops THEN "sleep" ELSE "off"

\* A reader task starts: run_fan_curve_service in the service process, the
\* task spawned by apply_fan_curve / apply_fan_speed / reset_fan_to_auto /
\* apply_charge_limit / apply_power_settings in the GUI process.
ReaderSpawn(task) ==
    /\ rdPc[task] = "off"
    /\ ftPc # "init"
    /\ IF task = "service"
          THEN procMode = "none" /\ procMode' = "service"
          ELSE procMode \in {"none", "gui"} /\ procMode' = "gui"
    /\ task \in OneShots =>
          Cardinality({r \in OneShots : rdPc[r] # "off"}) < MaxSpawned
    /\ rdPc' = [rdPc EXCEPT ![task] = "lock"]
    /\ UNCHANGED <<guiObs, lockVars, cacheVars, ryzVars, ftVars, ecVars, calcVars, fanVars>>

\* The task's lock request is granted.  With the slot None the guard is dropped
\* as the `if let` statement ends; with Some it is held across the awaits of
\* the backend calls in the body.
ReaderAcquire(task) ==
    /\ rdPc[task] = "lock"
    /\ LET slot == ReaderSlot(task) IN
         /\ ~WriterWaiting(slot)
         /\ wguards[slot] = "none"
         /\ IF SlotValue(slot) = "None"
               THEN /\ rdPc' = [rdPc EXCEPT ![task] = ReaderDone(task)]
                    /\ UNCHANGED lockVars
            ELSE IF ReaderLock(task) = "read"
               THEN /\ rdPc' = [rdPc EXCEPT ![task] = "held"]
                    /\ rguards' = [rguards EXCEPT ![slot] = @ \cup {task}]
                    /\ UNCHANGED wguards
            ELSE /\ rguards[slot] = {}
                 /\ rdPc' = [rdPc EXCEPT ![task] = "held"]
                 /\ wguards' = [wguards EXCEPT ![slot] = task]
                 /\ UNCHANGED rguards
    /\ UNCHANGED <<procMode, guiObs, cacheVars, ryzVars, ftVars, ecVars, calcVars, fanVars>>

\* The backend calls of the body (thermal / read_thermal and set_fan_duty,
\* autofanctrl, charge_limit_set, set_tdp_watts and set_thermal_limit_c) have
\* returned; the guard is dropped.
ReaderRelease(task) ==
    /\ rdPc[task] = "held"
    /\ LET slot == ReaderSlot(task) IN
         /\ rguards' = [rguards EXCEPT ![slot] = @ \ {task}]
         /\ wguards' = [wguards EXCEPT ![slot] = IF @ = task THEN "none" ELSE @]
    /\ rdPc' = [rdPc EXCEPT ![task] = ReaderDone(task)]
    /\ UNCHANGED <<procMode, guiObs, cacheVars, ryzVars, ftVars, ecVars, calcVars, fanVars>>

\* tokio::time::sleep(..).await of a fan-curve loop ends.
ReaderWake(task) ==
    /\ task \in Loops
    /\ rdPc[task] = "sleep"
    /\ rdPc' = [rdPc EXCEPT ![task] = "lock"]
    /\ UNCHANGED <<procMode, guiObs, lockVars, cacheVars, ryzVars, ftVars, ecVars, calcVars, fanVars>>

\* The last two distinct values seen.
Observe(obs, v) ==
    IF obs # << >> /\ obs[Len(obs)] = v THEN obs
    ELSE IF Len(obs) = 2 THEN <<obs[2], v>> ELSE Append(obs, v)

\* FrameworkControlApp::update_data: the GUI thread clones the slot under the
\* read lock (`block_on(async { framework_tool.read().await.clone() })`).
update_data ==
    /\ procMode \in {"none", "gui"}
    /\ ftPc # "init"
    /\ ~WriterWaiting("framework_tool")
    /\ wguards["framework_tool"] = "none"
    /\ guiObs' = Observe(guiObs, framework_tool)
    /\ guiObs' # guiObs
    /\ procMode' = "gui"
    /\ UNCHANGED <<rdPc, lockVars, cacheVars, ryzVars, ftVars, ecVars, calcVars, fanVars>>

(***************************************************************************)
(*              DECODING AND COMPUTING FUNCTIONS                           *)
(***************************************************************************)

\* Raw temperature sequences are drawn up to MaxTempLen bytes long.
MaxTempLen == 2
\* `for i in 0..4`: the fan block holds 4 tachometers.
NumFans == 4

SeqsUpTo(S, n) == UNION { [1..k -> S] : k \in 0..n }

\* Raw sensor bytes around the limits of the decoding.
TempBytes == {0, 23, 24, 73, 120, 222, 223, 251, 252, 255}

\* The 15 bytes read_ec_memory(0x00, 0x0F) returns from the sample memory map.
SampleTemps == [i \in 1..15 |-> EcMemMap(i - 1)]

\* What read_ec_memory(0x00, 0x0F) may return to read_temps.
TempInputs ==
    { [kind |-> "None"] } \cup
    { [kind |-> "Some", bytes |-> b] :
        b \in SeqsUpTo(TempBytes, MaxTempLen) \cup { <<73, 255, 120>>, SampleTemps } }

\* Tachometer byte pairs (low byte first).
FanPairs == { <<0, 16>>, <<255, 255>>, <<32, 3>>, <<0, 0>>, <<255, 254>> }

\* What read_ec_memory(0x10, 0x08) may return to read_fans.
FanInputs ==
    { [kind |-> "None"] } \cup
    { [kind |-> "Some",
       bytes |-> [i \in 1..(2 * NumFans) |-> f[(i + 1) \div 2][2 - (i % 2)]]] :
        f \in [1..NumFans -> FanPairs] }

\* `(t as i16 - 73) as f32`
TempC(t) == t - 73

\* `if t < 0xFC { .. if temp_c > -50.0 && temp_c < 150.0 { push } }`
TempKept_Inclusive(t) == t < 252 /\ TempC(t) > -50 /\ TempC(t) <= 150

TempKept(t) == t < 252 /\ TempC(t) > -50 /\ TempC(t) < 150

\* The loop of read_temps over the bytes read.
RECURSIVE DecodeTemps(_)
DecodeTemps(data) ==
    IF data = << >> THEN << >>
    ELSE (IF TempKept(Head(data)) THEN <<TempC(Head(data))>> ELSE << >>)
            \o DecodeTemps(Tail(data))

\* ec::read_temps: an empty list when read_ec_memory returns None.
read_temps(r) == IF r.kind = "Some" THEN DecodeTemps(r.bytes) ELSE << >>

\* The sensor loop of FrameworkTool::read_thermal from raw index i (0-based) on:
\* the kept sensors, named after their raw index.
RECURSIVE DecodeSensors(_, _)
DecodeSensors(data, i) ==
    IF data = << >> THEN << >>
    ELSE (IF TempKept(Head(data))
             THEN << [name |-> i, temp_c |-> TempC(Head(data))] >>
             ELSE << >>)
            \o DecodeSensors(Tail(data), i + 1)

\* u16::from_le_bytes([lo, hi])
from_le_bytes_BigEndian(lo, hi) == 256 * lo + hi

from_le_bytes(lo, hi) == lo + 256 * hi

\* The loop `for i in 0..4` of read_fans, from fan i (0-based) on.
RECURSIVE DecodeFans(_, _)
DecodeFans(data, i) ==
    IF i >= NumFans THEN << >>
    ELSE LET offset == i * 2 IN
         (IF offset + 1 < Len(data)
             THEN LET rpm == from_le_bytes(data[offset + 1], data[offset + 2]) IN
                  IF rpm # 65535 THEN <<rpm>> ELSE << >>
             ELSE << >>)
            \o DecodeFans(data, i + 1)

\* ec::read_fans: an empty list when read_ec_memory returns None.
read_fans(r) == IF r.kind = "Some" THEN DecodeFans(r.bytes, 0) ELSE << >>

\* FrameworkTool::read_thermal: both reads must succeed.
read_thermal(temps, fans) ==
    IF temps.kind # "Some" THEN [kind |-> "Err", msg |-> "Failed to read thermal sensors"]
    ELSE IF fans.kind # "Some" THEN [kind |-> "Err", msg |-> "Failed to read fan speeds"]
    ELSE [kind |-> "Ok",
          sensors |-> DecodeSensors(temps.bytes, 0),
          fans |-> DecodeFans(fans.bytes, 0)]

\* `let min_pct = if max_pct > 5 { max_pct - 5 } else { 0 };` in u8.
charge_min_pct_Wrapping(max_pct) == (max_pct - 5) % 256

charge_min_pct(max_pct) == IF max_pct > 5 THEN (max_pct - 5) % 256 ELSE 0

\* ec::set_charge_limit: the command and payload handed to send_ec_command.
set_charge_limit(max_pct) ==
    [command |-> 48, version |-> 0, data |-> <<charge_min_pct(max_pct), max_pct>>]

\* FrameworkTool::charge_limit_set: the arguments of ec.set_charge_limit.
charge_limit_set(max_pct) == [min_pct |-> charge_min_pct(max_pct), max_pct |-> max_pct]

CalcInit == calc = [fn |-> "none"]

OthersUnchanged ==
    UNCHANGED <<ecVars, cacheVars, ryzVars, ftVars, lockVars, readerVars, fanVars>>

\* The caller has taken the result.
CalcReturn ==
    /\ calc.fn \notin {"none", "run_fan_curve_service"}
    /\ calc' = [fn |-> "none"]
    /\ OthersUnchanged

CallReadTemps ==
    /\ calc.fn = "none"
    /\ \E r \in TempInputs :
         calc' = [fn |-> "read_temps", in |-> r, out |-> read_temps(r)]
    /\ OthersUnchanged

CallReadFans ==
    /\ calc.fn = "none"
    /\ \E r \in FanInputs :
         calc' = [fn |-> "read_fans", in |-> r, out |-> read_fans(r)]
    /\ OthersUnchanged

CallReadThermal ==
    /\ calc.fn = "none"
    /\ \E t \in { [kind |-> "None"], [kind |-> "Some", bytes |-> <<73, 255, 120>>],
                  [kind |-> "Some", bytes |-> SampleTemps] },
          f \in { [kind |-> "None"],
                  [kind |-> "Some", bytes |-> <<0, 16, 255, 255, 32, 3, 0, 0>>] } :
         calc' = [fn |-> "read_thermal", in |-> <<t, f>>, out |-> read_thermal(t, f)]
    /\ OthersUnchanged

CallSetChargeLimit ==
    /\ calc.fn = "none"
    /\ \E max_pct \in 0..255 :
         calc' = [fn |-> "set_charge_limit", in |-> max_pct,
                  out |-> [ec |-> set_charge_limit(max_pct),
                           tool |-> charge_limit_set(max_pct)]]
    /\ OthersUnchanged

\* Dumps are drawn up to MaxRows lines long.
MaxRows == 3

Max(a, b) == IF a >= b THEN a ELSE b

\* Option values.
None == [some |-> FALSE]
Some(v) == [some |-> TRUE, v |-> v]

\* to_ascii_uppercase on the words names are made of.
Upper(w) ==
    CASE w = "stapm" -> "STAPM"
      [] w = "limit" -> "LIMIT"
      [] OTHER -> w

\* str::contains, on names taken as sequences of words.
Contains(name, pat) ==
    \E i \in 1..(Len(name) - Len(pat) + 1) : SubSeq(name, i, i + Len(pat) - 1) = pat

\* A value cell as str::parse::<f32> sees it: a number (held in thousandths),
\* NaN ("nan" parses), or text that does not parse.
Num(milli) == [kind |-> "num", milli |-> milli]
NaN == [kind |-> "nan"]
Text == [kind |-> "text"]

\* A table line `| name | value | parameter |` as split('|') leaves it.
Row(name, value) == [bar |-> TRUE, sep |-> FALSE, parts |-> << <<>>, name, value, <<"param">>, <<>> >>]

\* The lines dumps are made of.
DumpLines ==
    { Row(<<"STAPM", "LIMIT">>, Num(45000)),
      Row(<<"PPT", "LIMIT", "FAST">>, Num(60000)),
      Row(<<"PPT", "LIMIT", "SLOW">>, Num(50000)),
      Row(<<"stapm", "limit">>, Num(44500)),
      Row(<<"STAPM", "LIMIT">>, Num(400)),
      Row(<<"PPT", "LIMIT", "FAST">>, NaN),
      Row(<<"PPT", "VALUE", "FAST">>, Num(10000)),
      Row(<<"THM", "LIMIT", "CORE">>, Num(95000)),
      Row(<<"Name">>, Text),
      [bar |-> TRUE, sep |-> TRUE, parts |-> << <<>>, <<"-----">>, <<"-----">> >>],
      [bar |-> TRUE, sep |-> FALSE, parts |-> << <<>>, <<"STAPM", "LIMIT">> >>],
      [bar |-> FALSE, sep |-> FALSE,
       parts |-> << <<"CPU">>, <<"STAPM", "LIMIT">>, Num(5000) >>] }

Dumps == SeqsUpTo(DumpLines, MaxRows)

\* f32::round: to the nearest integer, halves away from zero.
Round(milli) ==
    IF milli >= 0 THEN (milli + 500) \div 1000 ELSE -((-milli + 500) \div 1000)

Infinity == [kind |-> "inf"]

\* f32::min(a, v) for an accumulator a that is INFINITY or a number: the
\* other operand is returned when one is NaN.
f32_min_TakesMax(a, v) ==
    IF v.kind = "nan" THEN a
    ELSE IF a.kind = "inf" THEN v
    ELSE IF v.milli > a.milli THEN v ELSE a

f32_min(a, v) ==
    IF v.kind = "nan" THEN a
    ELSE IF a.kind = "inf" THEN v
    ELSE IF v.milli < a.milli THEN v ELSE a

\* `limits_w.into_iter().fold(f32::INFINITY, f32::min)`
RECURSIVE FoldMin(_, _)
FoldMin(acc, limits) ==
    IF limits = << >> THEN acc
    ELSE FoldMin(f32_min(acc, Head(limits)), Tail(limits))

\* The row a line yields: name upper-cased and value, when the line starts
\* with '|', not with "|-", has at least 3 parts and its value parses.
ParsedRow(line) ==
    IF line.bar /\ ~line.sep /\ Len(line.parts) >= 3 /\ line.parts[3].kind # "text"
        THEN Some([name |-> [i \in 1..Len(line.parts[2]) |-> Upper(line.parts[2][i])],
                   value |-> line.parts[3]])
        ELSE None

IsPowerLimit(name) ==
    \/ Contains(name, <<"STAPM", "LIMIT">>)
    \/ Contains(name, <<"PPT", "LIMIT", "FAST">>)
    \/ Contains(name, <<"PPT", "LIMIT", "SLOW">>)

IsThermalLimit(name) ==
    \/ Contains(name, <<"THM", "LIMIT", "CORE">>)
    \/ Contains(name, <<"TCTL">>)

\* `v.round() as u32`: the cast saturates, NaN becomes 0.
RoundU32(v) == IF v.kind = "nan" THEN 0 ELSE Max(0, Round(v.milli))

\* The loop of parse_info over the lines: limits_w and info.thermal_limit_c.
RECURSIVE ScanLines(_, _, _)
ScanLines(lines, limits_w, thermal) ==
    IF lines = << >> THEN [limits_w |-> limits_w, thermal_limit_c |-> thermal]
    ELSE LET r == ParsedRow(Head(lines)) IN
         IF ~r.some THEN ScanLines(Tail(lines), limits_w, thermal)
         ELSE ScanLines(Tail(lines),
                        IF IsPowerLimit(r.v.name) THEN Append(limits_w, r.v.value)
                                                  ELSE limits_w,
                        IF IsThermalLimit(r.v.name) THEN Some(RoundU32(r.v.value))
                                                    ELSE thermal)

\* ryzen_adj_parser::parse_info
parse_info(text) ==
    LET scan == ScanLines(text, << >>, None)
        min_w == FoldMin(Infinity, scan.limits_w)
    IN  [ tdp_watts |-> IF scan.limits_w # << >> /\ min_w.kind = "num"
                           THEN Some(Max(Round(min_w.milli), 1))
                           ELSE None,
          thermal_limit_c |-> scan.thermal_limit_c ]

\* A battery record of power::power_info.
Batteries ==
    { [charging |-> TRUE, charge_percentage |-> 80, remaining_capacity |-> 2800,
       design_capacity |-> 3500, present_voltage |-> 15400, present_rate |-> 1200],
      [charging |-> FALSE, charge_percentage |-> 0, remaining_capacity |-> 0,
       design_capacity |-> 3500, present_voltage |-> 0, present_rate |-> 0] }

\* What power::power_info(ec) may return.
PowerInfos ==
    { None } \cup
    { Some([ac_present |-> ac, battery |-> b]) :
        ac \in BOOLEAN, b \in { None } \cup { Some(x) : x \in Batteries } }

\* FrameworkTool::read_power_info (framework_tool.rs): the fields of
\* PowerBatteryInfo are plain numbers; voltage is kept in millivolts.
read_power_info(info) ==
    IF ~info.some THEN [kind |-> "Err", msg |-> "Failed to read power info"]
    ELSE LET battery == info.v.battery IN
         [ kind |-> "Ok",
           charge_percent |-> IF battery.some THEN battery.v.charge_percentage ELSE 0,
           status |-> IF info.v.ac_present
                         THEN IF battery.some
                                 THEN IF battery.v.charging THEN "Charging" ELSE "Plugged In"
                                 ELSE "AC Connected"
                         ELSE "Discharging",
           capacity_current |-> IF battery.some THEN battery.v.remaining_capacity ELSE 0,
           capacity_design |-> IF battery.some THEN battery.v.design_capacity ELSE 0,
           voltage |-> IF battery.some THEN battery.v.present_voltage ELSE 0,
           current |-> IF battery.some THEN battery.v.present_rate ELSE 0 ]

CallParseInfo ==
    /\ calc.fn = "none"
    /\ \E text \in Dumps :
         calc' = [fn |-> "parse_info", in |-> text, out |-> parse_info(text)]
    /\ OthersUnchanged

CallReadPowerInfo ==
    /\ calc.fn = "none"
    /\ \E info \in PowerInfos :
         calc' = [fn |-> "read_power_info", in |-> info, out |-> read_power_info(info)]
    /\ OthersUnchanged

(***************************************************************************)
(*   FAN CURVE  (windows_service.rs, main.rs, fan_curve_methods.rs)        *)
(***************************************************************************)

\* Most points a drawn curve has.
MaxPoints == 3

RECURSIVE Pow2(_)
Pow2(n) == IF n = 0 THEN 1 ELSE 2 * Pow2(n - 1)

Abs(x) == IF x >= 0 THEN x ELSE -x

\* f32 numbers are kept as whole multiples of 2^-22, which holds every f32 in
\* 16..128 and every whole number exactly: 1.0 is F32One.
F32One == Pow2(22)

F32(u) == [kind |-> "f32", u |-> u]

\* The whole number n as f32.
Whole(n) == F32(n * F32One)

\* The number of low bits a 24-bit significand cannot hold for magnitude a.
RECURSIVE DroppedBits(_, _)
DroppedBits(a, s) == IF a < Pow2(24 + s) THEN s ELSE DroppedBits(a, s + 1)

\* IEEE-754 rounding of an exact result to f32: nearest value with a 24-bit
\* significand, ties to the even significand.
RoundToF32(v) ==
    LET a == Abs(v)
        q == Pow2(DroppedBits(a, 0))
        lo == (a \div q) * q
        r == a - lo
        m == IF 2 * r < q THEN lo
             ELSE IF 2 * r > q THEN lo + q
             ELSE IF (lo \div q) % 2 = 0 THEN lo ELSE lo + q
    IN  IF v >= 0 THEN m ELSE -m

f32_sub(a, b) == F32(RoundToF32(a.u - b.u))
f32_add(a, b) == F32(RoundToF32(a.u + b.u))

\* (max_temp - t1) / (t2 - t1) on whole temperatures, in quarters: the drawn
\* temperatures make every ratio a multiple of 1/4, which f32 holds exactly;
\* 0.0 / 0.0 is NaN.
Ratio4(num, den) == (4 * num) \div den

\* x * ratio for a ratio of k quarters.
f32_mul4(x, k) == F32(RoundToF32((x.u * k) \div 4))

\* d1 + (d2 - d1) * ratio, the linear interpolation of all three loops.
Lerp(t1, d1, t2, d2, temp) ==
    IF t2 = t1 THEN NaN
    ELSE f32_add(d1, f32_mul4(f32_sub(d2, d1), Ratio4(temp - t1, t2 - t1)))

\* `duty as u32`: toward zero, negative numbers and NaN to 0.
AsU32(d) == IF d.kind # "f32" \/ d.u <= 0 THEN 0 ELSE d.u \div F32One

\* The curve run_fan_curve_service is started with.
fan_curve ==
    << [t |-> 40, d |-> Whole(20)], [t |-> 50, d |-> Whole(30)],
       [t |-> 60, d |-> Whole(40)], [t |-> 70, d |-> Whole(60)],
       [t |-> 80, d |-> Whole(80)], [t |-> 90, d |-> Whole(100)] >>

\* Temperatures of the drawn curves' points and the duties the editor's drag
\* fields can hold: 20.0 and 100.0, and the f32 nearest to 16.1 and to 48.2.
CurveTemps == {40, 50, 60}
Duties == { Whole(20), Whole(100), F32(67528296), F32(202165456) }

\* sort_by(|a, b| a.0.partial_cmp(&b.0)): ascending by temperature.
Sorted(curve) == \A i \in 1..(Len(curve) - 1) : curve[i].t <= curve[i + 1].t

Curves ==
    { c \in SeqsUpTo([t : CurveTemps, d : Duties], MaxPoints) : Sorted(c) }

\* Readings below, on, between and above the points.
MaxTemps == {35, 40, 45, 50, 55, 60, 65}

\* The loop of run_fan_curve_service and of apply_fan_curve (main.rs): the
\* first index whose test succeeds decides, and the duty stays 50.0 when none
\* does.
\* A first test that leaves a reading equal to the first temperature to the
\* later tests.
at_or_below_first_Strict(max_temp, t0) == max_temp < t0

\* `max_temp <= curve[i].0` of the test at index 0.
at_or_below_first(max_temp, t0) == max_temp <= t0

\* The test that ends the loop from index i on and the index it succeeds at:
\* "first" (i == 0), "last" (i == len - 1), "segment" (i, i + 1), or
\* "fallback" when the loop runs out.
RECURSIVE CurveRule(_, _, _)
CurveRule(curve, max_temp, i) ==
    LET len == Len(curve) IN
    IF i > len THEN [rule |-> "fallback", i |-> i]
    ELSE IF i = 1 /\ at_or_below_first(max_temp, curve[i].t) THEN [rule |-> "first", i |-> i]
    ELSE IF i = len /\ max_temp >= curve[i].t THEN [rule |-> "last", i |-> i]
    ELSE IF i < len /\ max_temp >= curve[i].t /\ max_temp <= curve[i + 1].t
         THEN [rule |-> "segment", i |-> i]
    ELSE CurveRule(curve, max_temp, i + 1)

CurveLoop(curve, max_temp, i) ==
    LET r == CurveRule(curve, max_temp, i) IN
    IF r.rule = "fallback" THEN Whole(50)
    ELSE IF r.rule \in {"first", "last"} THEN curve[r.i].d
    ELSE Lerp(curve[r.i].t, curve[r.i].d, curve[r.i + 1].t, curve[r.i + 1].d, max_temp)

apply_fan_curve(curve, max_temp) == CurveLoop(curve, max_temp, 1)

\* interpolate_curve (fan_curve_methods.rs): lower is the last point at or
\* below temp, upper the first point at or above it.
interpolate_curve(curve, temp) ==
    IF curve = << >> THEN Whole(50)
    ELSE LET below == { i \in 1..Len(curve) : curve[i].t <= temp }
             above == { i \in 1..Len(curve) : curve[i].t >= temp }
             lower == IF below = {} THEN None
                      ELSE Some(curve[CHOOSE i \in below : \A j \in below : j <= i])
             upper == IF above = {} THEN None
                      ELSE Some(curve[CHOOSE i \in above : \A j \in above : i <= j])
         IN  IF lower.some /\ upper.some /\ lower.v.t # upper.v.t
                THEN Lerp(lower.v.t, lower.v.d, upper.v.t, upper.v.d, temp)
             ELSE IF lower.some THEN lower.v.d
             ELSE IF upper.some THEN upper.v.d
             ELSE Whole(50)

CallApplyFanCurve ==
    /\ calc.fn = "none"
    /\ \E curve \in Curves, t \in MaxTemps :
         calc' = [fn |-> "apply_fan_curve", in |-> [curve |-> curve, t |-> t],
                  rule |-> CurveRule(curve, t, 1),
                  out |-> apply_fan_curve(curve, t)]
    /\ OthersUnchanged

CallInterpolateCurve ==
    /\ calc.fn = "none"
    /\ \E curve \in Curves, t \in MaxTemps :
         calc' = [fn |-> "interpolate_curve", in |-> [curve |-> curve, t |-> t],
                  out |-> interpolate_curve(curve, t)]
    /\ OthersUnchanged

\* f32::NEG_INFINITY, below every reading.
NEG_INFINITY == -1000

\* CurveConfig.rate_limit_pct_per_step values a configuration can hold; 100 is
\* default_rate_limit_pct_per_step().
RateLimits == {5, 10, 100}

\* What ft.read_thermal() gives a tick: an error, or the sensors' whole
\* temperatures.
SensorReadings == {40, 45, 70, 90}

\* Most sensors a drawn thermal sample has.
MaxSensors == 2

ThermalResults ==
    { [kind |-> "Err"] } \cup
    { [kind |-> "Ok", sensors |-> r] : r \in SeqsUpTo(SensorReadings, MaxSensors) }

\* A fold that keeps the reading seen last.
FoldMax_KeepsLast(acc, sensors) ==
    IF sensors = << >> THEN acc ELSE sensors[Len(sensors)]

\* .fold(f32::NEG_INFINITY, f32::max)
RECURSIVE FoldMax(_, _)
FoldMax(acc, sensors) ==
    IF sensors = << >> THEN acc
    ELSE FoldMax(Max(acc, Head(sensors)), Tail(sensors))

\* The duty one tick of run_fan_curve_service commands: none when the thermal
\* read fails, else the curve's duty for the hottest sensor, as u32.
TickCommand(thermal) ==
    IF thermal.kind # "Ok" THEN None
    ELSE Some(AsU32(CurveLoop(fan_curve, FoldMax(NEG_INFINITY, thermal.sensors), 1)))

\* The max_temp of a tick of run_fan_curve_service, when the read succeeded.
TickMaxTemp(thermal) ==
    IF thermal.kind # "Ok" THEN None
    ELSE Some(FoldMax(NEG_INFINITY, thermal.sensors))

\* thermal.temps.values().max().copied().unwrap_or(50) of apply_fan_curve.
RECURSIVE values_max(_)
values_max(temps) ==
    IF temps = << >> THEN None
    ELSE LET rest == values_max(Tail(temps)) IN
         IF rest.some /\ rest.v > Head(temps) THEN rest ELSE Some(Head(temps))

max_temp_or_default(temps) ==
    LET m == values_max(temps) IN IF m.some THEN m.v ELSE 50

\* The max_temp a tick of apply_fan_curve's loop takes from a thermal sample.
CallMaxTemp ==
    /\ calc.fn = "none"
    /\ \E temps \in SeqsUpTo(SensorReadings, MaxSensors) :
         calc' = [fn |-> "max_temp", in |-> temps, out |-> max_temp_or_default(temps)]
    /\ OthersUnchanged

\* run_fan_curve_service starts: the configuration is read and dropped.
RunFanCurveService ==
    /\ calc.fn = "none"
    /\ \E rate \in RateLimits :
         calc' = [fn |-> "run_fan_curve_service",
                  in |-> [rate_limit_pct_per_step |-> rate],
                  last |-> None, out |-> None,
                  thermal |-> None, max_temp |-> None]
    /\ OthersUnchanged

\* One pass of the service loop; last is the duty commanded before this pass.
FanCurveTick ==
    /\ calc.fn = "run_fan_curve_service"
    /\ \E thermal \in ThermalResults :
         calc' = [calc EXCEPT !.last = IF calc.out.some THEN calc.out ELSE calc.last,
                              !.out = TickCommand(thermal),
                              !.thermal = Some(thermal),
                              !.max_temp = TickMaxTemp(thermal)]
    /\ OthersUnchanged

(***************************************************************************)
(*      THE FAN-CURVE LOOPS AND THE FAN PANEL OF THE GUI                   *)
(***************************************************************************)

\* Most loops the process is followed through.
MaxLoops == 2

\* What runs: the service (windows_service.rs), or the GUI with the fan panel
\* of main.rs or of fan_curve_methods.rs.
GuiBuilds == {"main", "fan_curve_methods"}
Builds == {"service"} \cup GuiBuilds

\* What a tick's thermal read returns: an error, or two sensors' readings.
LoopThermals ==
    { [kind |-> "Err"], [kind |-> "Ok", sensors |-> <<95, 40>>] }

\* A loop as it is spawned: about to lock the slot for its first tick.
NewLoop(task, curve) ==
    [task |-> task, curve |-> curve, pc |-> "lock", max_temp |-> None]

\* FrameworkControlApp::new: the fan fields.
GuiNew ==
    [build |-> "none", auto_fan |-> TRUE, fan_curve_enabled |-> FALSE,
     fan_duty |-> 50, fan_curve |-> fan_curve,
     interp |-> None, drags |-> 0]

FanInit ==
    /\ fan_loops = << >>
    /\ fan_tasks = {}
    /\ fan_cmd = None
    /\ fan_gui = GuiNew

\* AppState::initialize, first half: `ryzenadj: RyzenAdj::new().await.ok()`.
InitializeRyzenAdj ==
    /\ ryzPc \in {"init", "init_wait"}
    /\ \/ RyzenAdj_new
       \/ RyzenAdj_new_validated

\* The process is up: run_fan_curve_service enters its loop, or the GUI opens.
ProcessStart(builds) ==
    /\ fan_gui.build = "none"
    /\ ftPc # "init"
    /\ \E b \in builds :
         /\ fan_gui' = [fan_gui EXCEPT !.build = b]
         /\ fan_loops' = IF b = "service" THEN <<NewLoop("service", fan_curve)>>
                         ELSE fan_loops
    /\ UNCHANGED <<fan_tasks, fan_cmd>>
    /\ UNCHANGED <<ecVars, cacheVars, ryzVars, ftVars, lockVars, readerVars, calcVars>>

\* `if let Some(ft) = state.framework_tool.read().await.as_ref()`
tick_body_runs(slot) == slot = "Some"

\* `if let Ok(thermal) = ft.read_thermal().await` / `ft.thermal().await`
after_read_thermal(ok) == IF ok THEN "duty" ELSE "sleep"

\* A loop that ends when the write fails.
after_set_fan_duty_StopsOnError(ok) == IF ok THEN "sleep" ELSE "stopped"

\* `let _ = ft.set_fan_duty(duty as u32, None).await;`
after_set_fan_duty(ok) == "sleep"

\* The max_temp a loop takes from a thermal sample.
LoopMaxTemp(loop, sensors) ==
    IF loop.task = "service" THEN FoldMax(NEG_INFINITY, sensors)
    ELSE max_temp_or_default(sensors)

\* `duty as u32` of the duty a loop computes from its own curve.
LoopDuty(loop, max_temp, build) ==
    IF build = "fan_curve_methods" THEN AsU32(interpolate_curve(loop.curve, max_temp))
    ELSE AsU32(apply_fan_curve(loop.curve, max_temp))

\* The read lock of a tick is granted.  With the slot None the guard is
\* dropped as the `if let` ends, and the loop sleeps.
LoopLock(i) ==
    /\ i \in 1..Len(fan_loops)
    /\ fan_loops[i].pc = "lock"
    /\ ~WriterWaiting("framework_tool")
    /\ wguards["framework_tool"] = "none"
    /\ IF tick_body_runs(framework_tool)
          THEN /\ fan_loops' = [fan_loops EXCEPT ![i].pc = "thermal"]
               /\ rguards' = [rguards EXCEPT !["framework_tool"] = @ \cup {i}]
          ELSE /\ fan_loops' = [fan_loops EXCEPT ![i].pc = "sleep"]
               /\ UNCHANGED rguards
    /\ UNCHANGED <<wguards, fan_tasks, fan_cmd, fan_gui>>
    /\ UNCHANGED <<ecVars, cacheVars, ryzVars, ftVars, readerVars, calcVars>>

\* The thermal read returns.  On an error the body is left and the guard
\* dropped.
LoopThermal(i) ==
    /\ i \in 1..Len(fan_loops)
    /\ fan_loops[i].pc = "thermal"
    /\ \E r \in LoopThermals :
         /\ ftEnv = "good" => r.kind = "Ok"
         /\ LET next == after_read_thermal(r.kind = "Ok") IN
              /\ fan_loops' =
                   [fan_loops EXCEPT ![i].pc = next,
                                     ![i].max_temp =
                                        IF next = "duty"
                                           THEN Some(LoopMaxTemp(fan_loops[i], r.sensors))
                                           ELSE None]
              /\ rguards' = IF next = "duty" THEN rguards
                            ELSE [rguards EXCEPT !["framework_tool"] = @ \ {i}]
    /\ UNCHANGED <<wguards, fan_tasks, fan_cmd, fan_gui>>
    /\ UNCHANGED <<ecVars, cacheVars, ryzVars, ftVars, readerVars, calcVars>>

\* set_fan_duty returns; the body ends and the guard is dropped.
LoopSetDuty(i) ==
    /\ i \in 1..Len(fan_loops)
    /\ fan_loops[i].pc = "duty"
    /\ \E ok \in ToolOutcomes(ftEnv) :
         /\ fan_cmd' = Some([op |-> "set_fan_duty", by |-> i, ok |-> ok,
                             duty |-> LoopDuty(fan_loops[i], fan_loops[i].max_temp.v,
                                               fan_gui.build)])
         /\ fan_loops' = [fan_loops EXCEPT ![i].pc = after_set_fan_duty(ok),
                                           ![i].max_temp = None]
    /\ rguards' = [rguards EXCEPT !["framework_tool"] = @ \ {i}]
    /\ UNCHANGED <<wguards, fan_tasks, fan_gui>>
    /\ UNCHANGED <<ecVars, cacheVars, ryzVars, ftVars, readerVars, calcVars>>

\* tokio::time::sleep(Duration::from_secs(5)).await ends.
LoopSleep(i) ==
    /\ i \in 1..Len(fan_loops)
    /\ fan_loops[i].pc = "sleep"
    /\ fan_loops' = [fan_loops EXCEPT ![i].pc = "lock"]
    /\ UNCHANGED <<fan_tasks, fan_cmd, fan_gui>>
    /\ UNCHANGED <<ecVars, cacheVars, ryzVars, ftVars, lockVars, readerVars, calcVars>>

\* `clicked() && len > 2` / `clicked() && len < 10`: the sizes the editor's
\* buttons stop at.
MinCurvePoints == 2
MaxCurvePoints == 10

\* Grid drags of a temperature the editor is followed through.
MaxEdits == 1

\* Where a dragged temperature is left: the ends of clamp_range(20.0..=100.0).
DragTemps == {20, 100}

Front(seq) == SubSeq(seq, 1, Len(seq) - 1)
Last(seq) == seq[Len(seq)]

\* sort_by(|a, b| a.0.partial_cmp(&b.0).unwrap()): a stable sort, ascending
\* by temperature.
RECURSIVE InsertByTemp(_, _)
InsertByTemp(sorted, p) ==
    IF sorted = << >> \/ Last(sorted).t <= p.t THEN Append(sorted, p)
    ELSE Append(InsertByTemp(Front(sorted), p), Last(sorted))

RECURSIVE sort_by(_)
sort_by(curve) ==
    IF curve = << >> THEN << >>
    ELSE InsertByTemp(sort_by(Front(curve)), Last(curve))

\* A spawn that ends the loops spawned before.
runtime_spawn_AbortsPrevious(loops, loop) == <<loop>>

\* self.runtime.spawn(async move { loop { .. } }): the JoinHandle is dropped,
\* the task runs on.
runtime_spawn(loops, loop) == Append(loops, loop)

\* The mode radio buttons of the fan panel.
RadioLabels == {"Auto", "Manual", "Fixed Speed", "Curve"}

RadioEffect(gui, label) ==
    IF gui.build = "main"
        THEN IF label = "Auto"
                THEN [gui EXCEPT !.auto_fan = TRUE, !.fan_curve_enabled = FALSE]
             ELSE IF label = "Manual"
                THEN [gui EXCEPT !.auto_fan = FALSE, !.fan_curve_enabled = FALSE]
             ELSE IF label = "Curve"
                THEN [gui EXCEPT !.auto_fan = FALSE, !.fan_curve_enabled = TRUE]
             ELSE gui
    ELSE IF label = "Auto" THEN [gui EXCEPT !.auto_fan = TRUE]
    ELSE IF label = "Manual" THEN [gui EXCEPT !.auto_fan = FALSE]
    ELSE IF gui.auto_fan THEN gui
    ELSE [gui EXCEPT !.fan_curve_enabled = (label = "Curve")]

RadioClick ==
    /\ fan_gui.build \in GuiBuilds
    /\ \E label \in RadioLabels :
         /\ fan_gui' = RadioEffect(fan_gui, label)
         /\ fan_gui' # fan_gui
    /\ UNCHANGED <<fan_loops, fan_tasks, fan_cmd>>
    /\ UNCHANGED <<ecVars, cacheVars, ryzVars, ftVars, lockVars, readerVars, calcVars>>

\* The curve editor is on screen.
EditorShown ==
    /\ fan_gui.build \in GuiBuilds
    /\ ~fan_gui.auto_fan
    /\ fan_gui.fan_curve_enabled

\* A grid row's temperature is dragged (DragValue::new(temp)) and left at v.
GridEditTemp(rows, temps) ==
    /\ EditorShown
    /\ fan_gui.drags < MaxEdits
    /\ \E idx \in rows \cap (1..Len(fan_gui.fan_curve)), v \in temps :
         /\ fan_gui.fan_curve[idx].t # v
         /\ fan_gui' = [fan_gui EXCEPT !.fan_curve[idx].t = v, !.drags = @ + 1]
    /\ UNCHANGED <<fan_loops, fan_tasks, fan_cmd>>
    /\ UNCHANGED <<ecVars, cacheVars, ryzVars, ftVars, lockVars, readerVars, calcVars>>

\* A remove button that still acts on a curve of two points.
remove_allowed_AtTwo(len) == len >= MinCurvePoints

\* `clicked() && curve_len > 2` / `clicked() && self.fan_curve.len() > 2`
remove_allowed(len) == len > MinCurvePoints

\* `clicked() && self.fan_curve.len() < 10`
add_allowed(len) == len < MaxCurvePoints

\* The remove button of a grid row: `self.fan_curve.remove(idx)`.
RemovePoint(rows) ==
    /\ EditorShown
    /\ remove_allowed(Len(fan_gui.fan_curve))
    /\ \E idx \in rows \cap (1..Len(fan_gui.fan_curve)) :
         fan_gui' = [fan_gui EXCEPT
                       !.fan_curve = SubSeq(@, 1, idx - 1) \o SubSeq(@, idx + 1, Len(@))]
    /\ UNCHANGED <<fan_loops, fan_tasks, fan_cmd>>
    /\ UNCHANGED <<ecVars, cacheVars, ryzVars, ftVars, lockVars, readerVars, calcVars>>

\* (last_temp + 10.0).min(100.0), with last().unwrap_or(50.0)
new_temp(curve) == Min((IF curve = << >> THEN 50 ELSE Last(curve).t) + 10, 100)

\* The points interpolate_curve interpolates between, when it does.
Bracket(curve, temp) ==
    LET below == { i \in 1..Len(curve) : curve[i].t <= temp }
        above == { i \in 1..Len(curve) : curve[i].t >= temp }
    IN  IF below = {} \/ above = {} THEN None
        ELSE LET lower == curve[CHOOSE i \in below : \A j \in below : j <= i]
                 upper == curve[CHOOSE i \in above : \A j \in above : i <= j]
             IN  IF lower.t = upper.t THEN None
                 ELSE Some([lower |-> lower, upper |-> upper])

\* The interpolation is one the f32 model computes exactly: its ratio is a
\* whole number of quarters and so is the product.
LerpExact(curve, temp) ==
    LET b == Bracket(curve, temp) IN
    b.some =>
       /\ (4 * (temp - b.v.lower.t)) % (b.v.upper.t - b.v.lower.t) = 0
       /\ (f32_sub(b.v.upper.d, b.v.lower.d).u
             * Ratio4(temp - b.v.lower.t, b.v.upper.t - b.v.lower.t)) % 4 = 0

\* The Add Point button.  main.rs pushes (new_temp, 50.0); fan_curve_methods.rs
\* pushes (new_temp, self.interpolate_curve(new_temp)); both sort afterwards.
\* The step is followed where the interpolation is exact in the f32 model.
AddPoint ==
    /\ EditorShown
    /\ add_allowed(Len(fan_gui.fan_curve))
    /\ LET curve == fan_gui.fan_curve
           temp == new_temp(curve)
       IN  IF fan_gui.build = "main"
              THEN fan_gui' = [fan_gui EXCEPT
                      !.fan_curve = sort_by(Append(curve, [t |-> temp, d |-> Whole(50)]))]
              ELSE /\ LerpExact(curve, temp)
                   /\ fan_gui' = [fan_gui EXCEPT
                         !.interp = Some(curve),
                         !.fan_curve = sort_by(Append(curve,
                             [t |-> temp, d |-> interpolate_curve(curve, temp)]))]
    /\ UNCHANGED <<fan_loops, fan_tasks, fan_cmd>>
    /\ UNCHANGED <<ecVars, cacheVars, ryzVars, ftVars, lockVars, readerVars, calcVars>>

\* FrameworkControlApp::apply_fan_curve: sort, clone, spawn the loop.
ApplyFanCurve ==
    /\ EditorShown
    /\ Len(fan_loops) < MaxLoops
    /\ LET curve == sort_by(fan_gui.fan_curve) IN
         /\ fan_gui' = [fan_gui EXCEPT !.fan_curve = curve]
         /\ fan_loops' = runtime_spawn(fan_loops, NewLoop("fan_curve", curve))
    /\ UNCHANGED <<fan_tasks, fan_cmd>>
    /\ UNCHANGED <<ecVars, cacheVars, ryzVars, ftVars, lockVars, readerVars, calcVars>>

\* FrameworkControlApp::reset_fan_to_auto: the task is spawned, the flags set.
reset_fan_to_auto ==
    /\ fan_gui.build \in GuiBuilds
    /\ ~fan_gui.auto_fan
    /\ fan_tasks' = fan_tasks \cup {"reset_fan_to_auto"}
    /\ fan_gui' = [fan_gui EXCEPT !.auto_fan = TRUE]
    /\ UNCHANGED <<fan_loops, fan_cmd>>
    /\ UNCHANGED <<ecVars, cacheVars, ryzVars, ftVars, lockVars, readerVars, calcVars>>

\* FrameworkControlApp::apply_fan_speed: the task is spawned with self.fan_duty.
apply_fan_speed ==
    /\ fan_gui.build \in GuiBuilds
    /\ ~fan_gui.auto_fan
    /\ ~fan_gui.fan_curve_enabled
    /\ fan_tasks' = fan_tasks \cup {"apply_fan_speed"}
    /\ UNCHANGED <<fan_loops, fan_cmd, fan_gui>>
    /\ UNCHANGED <<ecVars, cacheVars, ryzVars, ftVars, lockVars, readerVars, calcVars>>

\* The task of reset_fan_to_auto / apply_fan_speed runs: with the slot Some it
\* calls autofanctrl() / set_fan_duty(duty, None) under the read guard.
FanTaskRun(task) ==
    /\ task \in fan_tasks
    /\ ~WriterWaiting("framework_tool")
    /\ wguards["framework_tool"] = "none"
    /\ fan_tasks' = fan_tasks \ {task}
    /\ IF framework_tool = "Some"
          THEN \E ok \in ToolOutcomes(ftEnv) :
                 fan_cmd' = Some(IF task = "reset_fan_to_auto"
                                    THEN [op |-> "autofanctrl", by |-> 0, ok |-> ok]
                                    ELSE [op |-> "set_fan_duty", by |-> 0, ok |-> ok,
                                          duty |-> fan_gui.fan_duty])
          ELSE UNCHANGED fan_cmd
    /\ UNCHANGED <<fan_loops, fan_gui>>
    /\ UNCHANGED <<ecVars, cacheVars, ryzVars, ftVars, lockVars, readerVars, calcVars>>

vars == <<ecVars, cacheVars, ryzVars, ftVars, lockVars, readerVars, calcVars, fanVars>>

Init ==
    /\ EcInit /\ CacheInit /\ RyzInit /\ LocksInit /\ FtInit /\ ReadersInit
    /\ CalcInit /\ FanInit

\* One caller running the whole API, one call after the other.
NextEc ==
    /\ \/ EcCall("t1", EcOps)
       \/ EcCreateFile("t1")
       \/ check_connection("t1")
       \/ read_ec_memory("t1")
       \/ send_ec_command("t1", XcmdResponses)
       \/ EcReturn("t1")
    /\ UNCHANGED <<cacheVars, ryzVars, ftVars, lockVars, readerVars, calcVars, fanVars>>

SpecEc == Init /\ [][NextEc]_vars

\* Two callers on different threads, each running any of ConcOps.
NextEcConc ==
    /\ \/ \E t \in EcThreads : EcCall(t, ConcOps)
       \/ \E t \in EcThreads : EcCreateFile(t)
       \/ \E t \in EcThreads : check_connection(t)
       \/ \E t \in EcThreads : read_ec_memory(t)
       \/ \E t \in EcThreads : send_ec_command(t, ConcResponses)
       \/ \E t \in EcThreads : EcReturn(t)
    /\ UNCHANGED <<cacheVars, ryzVars, ftVars, lockVars, readerVars, calcVars, fanVars>>

SpecEcConc == Init /\ [][NextEcConc]_vars

\* Calls of the decoding and computing functions on drawn inputs.
NextCalc ==
    \/ CallReadTemps
    \/ CallReadFans
    \/ CallReadThermal
    \/ CallSetChargeLimit
    \/ CallParseInfo
    \/ CallReadPowerInfo
    \/ CallApplyFanCurve
    \/ CallInterpolateCurve
    \/ RunFanCurveService
    \/ FanCurveTick
    \/ CallMaxTemp
    \/ CalcReturn

SpecCalc == Init /\ [][NextCalc]_vars

\* One caller sending payloads to a device that echoes them.
NextEcEcho ==
    /\ \/ EcCall("t1", EchoOps)
       \/ EcCreateFile("t1")
       \/ send_ec_command("t1",
             EchoResponses(CopyFromSlice(ZeroBuf(CROSEC_CMD_MAX_REQUEST), ecOp["t1"].data)))
       \/ EcReturn("t1")
    /\ UNCHANGED <<cacheVars, ryzVars, ftVars, lockVars, readerVars, calcVars, fanVars>>

SpecEcEcho == Init /\ [][NextEcEcho]_vars

\* The cache with its callers: RyzenAdj::new (initialize, the resolver) and
\* the callers of info(), as time passes and the installation comes and goes.
NextCache ==
    \/ RyzSupervisor
    \/ \E c \in InfoReaders : InfoCall(c)
    \/ \E c \in InfoReaders : InfoReturn(c)
    \/ FetchComplete
    \/ Tick
    \/ RyzEnvChange

SpecCache == Init /\ [][NextCache]_vars

\* The process after start: both supervisors and the readers of the slots.
NextSup ==
    \/ RyzSupervisor
    \/ FetchComplete
    \/ FtSupervisor
    \/ \E task \in Readers : ReaderSpawn(task)
    \/ \E task \in Readers : ReaderAcquire(task)
    \/ \E task \in Readers : ReaderRelease(task)
    \/ \E task \in Readers : ReaderWake(task)
    \/ update_data

SpecSup == Init /\ [][NextSup]_vars

\* The supervisors and the fan-curve loops while the installations come and go.
NextSupEnv ==
    \/ RyzSupervisor
    \/ FetchComplete
    \/ RyzEnvChange
    \/ FtSupervisor
    \/ FtEnvChange
    \/ \E task \in Loops : ReaderSpawn(task)
    \/ \E task \in Loops : ReaderAcquire(task)
    \/ \E task \in Loops : ReaderRelease(task)
    \/ \E task \in Loops : ReaderWake(task)

\* Every task that can run is eventually polled, every backend process ends.
SupFairness ==
    /\ WF_vars(RyzSupervisor)
    /\ WF_vars(FtSupervisor)
    /\ WF_vars(FetchComplete)
    /\ \A task \in Loops : WF_vars(ReaderRelease(task))

SpecSupFair == Init /\ [][NextSupEnv]_vars /\ SupFairness

\* The process of SpecSup under its scheduling: the runtime polls every task
\* that can run, and the backend calls made under a read guard return.
LockFairness ==
    /\ WF_vars(RyzSupervisor)
    /\ WF_vars(FtSupervisor)
    /\ WF_vars(FetchComplete)
    /\ \A task \in Readers : WF_vars(ReaderRelease(task))

SpecSupLocks == Init /\ [][NextSup]_vars /\ LockFairness

\* A process with one fan-curve loop beside the supervisor of its slot: the
\* service, or the GUI after the first Apply Curve.
NextFanLoop ==
    \/ InitializeRyzenAdj
    \/ FetchComplete
    \/ FtSupervisor
    \/ ProcessStart(Builds)
    \/ \E i \in 1..MaxLoops : LoopLock(i)
    \/ \E i \in 1..MaxLoops : LoopThermal(i)
    \/ \E i \in 1..MaxLoops : LoopSetDuty(i)
    \/ \E i \in 1..MaxLoops : LoopSleep(i)
    \/ RadioClick
    \/ (fan_loops = << >> /\ ApplyFanCurve)

SpecFanLoop == Init /\ [][NextFanLoop]_vars

\* The GUI on a machine without ryzenadj, with the framework_tool slot as
\* initialize left it: the fan panel, its one-shot tasks and its loops.
NextGuiFan ==
    \/ (ryzPc = "init" /\ RyzenAdj_new)
    \/ FtInitialize
    \/ ProcessStart(GuiBuilds)
    \/ \E i \in 1..MaxLoops : LoopLock(i)
    \/ \E i \in 1..MaxLoops : LoopThermal(i)
    \/ \E i \in 1..MaxLoops : LoopSetDuty(i)
    \/ \E i \in 1..MaxLoops : LoopSleep(i)
    \/ RadioClick
    \/ GridEditTemp({1}, {100})
    \/ ApplyFanCurve
    \/ reset_fan_to_auto
    \/ apply_fan_speed
    \/ \E task \in {"reset_fan_to_auto", "apply_fan_speed"} : FanTaskRun(task)

SpecGuiFan == Init /\ [][NextGuiFan]_vars

\* The curve editor of the GUI under its Remove and Add Point buttons.
NextEditor ==
    \/ (ryzPc = "init" /\ RyzenAdj_new)
    \/ FtInitialize
    \/ ProcessStart(GuiBuilds)
    \/ RadioClick
    \/ RemovePoint(1..MaxCurvePoints)
    \/ AddPoint

SpecEditor == Init /\ [][NextEditor]_vars

\* The curve editor with a temperature dragged out of order, up to and after
\* the first Apply Curve.
NextCurveUse ==
    \/ (ryzPc = "init" /\ RyzenAdj_new)
    \/ FtInitialize
    \/ ProcessStart(GuiBuilds)
    \/ RadioClick
    \/ GridEditTemp({2}, DragTemps)
    \/ RemovePoint({1})
    \/ AddPoint
    \/ (fan_loops = << >> /\ ApplyFanCurve)

SpecCurveUse == Init /\ [][NextCurveUse]_vars

(***************************************************************************)
(*                              CLAIMS                                     *)
(***************************************************************************)

InfoKey == "ryzenadj.info"

\* The callers suspended in cache_get_or_update.
Waiting == {c \in CacheCallers : cPc[c] = "waiting"}

\* Caller c enters cache_get_or_update in this step.
Calls(c) == cPc[c] = "idle" /\ cPc'[c] # "idle"

\* C1: callers of cache_get_or_update that overlap on the key "ryzenadj.info"
\* with no live entry share one fetch: at most one fetch is in flight and at
\* most one suspended caller has started one, every suspended caller waits on
\* that fetch, and when it ends all of them return together with the same
\* value or error.
C1_SingleFlight ==
    [][ /\ Cardinality(DOMAIN inflight') <= 1
        /\ Cardinality({c \in CacheCallers :
                          cPc'[c] = "waiting" /\ cHow'[c] = "fetched"}) <= 1
        /\ \A c \in CacheCallers :
             cPc'[c] = "waiting" =>
                InfoKey \in DOMAIN inflight' /\ c \in inflight'[InfoKey].waiters
        /\ \A c1, c2 \in Waiting :
             /\ (cPc'[c1] = "done") <=> (cPc'[c2] = "done")
             /\ cPc'[c1] = "done" => cRes'[c1] = cRes'[c2] ]_vars

\* C1 witness: two info() callers have returned from one fetch, one having
\* started it and the other having joined it, with the same value.
C1_Witness ==
    /\ cPc["r1"] = "done" /\ cHow["r1"] = "fetched"
    /\ cPc["r2"] = "done" /\ cHow["r2"] = "joined"
    /\ cRes["r1"] = cRes["r2"]
    /\ cRes["r1"].ok

\* C2: a call returns the stored entry, without a fetch, exactly when the
\* entry's age is strictly below the 2000 ms ttl; with no live entry and no
\* fetch in flight the call starts the fetch; and an entry whose age has
\* reached the ttl stays expired until a fetch for its key ends.
C2_TtlStrict ==
    [][ /\ \A c \in CacheCallers :
             Calls(c) =>
               LET live == InfoKey \in DOMAIN cache /\ cache[InfoKey].age < INFO_TTL IN
                 /\ (cHow'[c] = "hit") <=> live
                 /\ live => /\ cPc'[c] = "done"
                            /\ cRes'[c] = cache[InfoKey].res
                            /\ inflight' = inflight
                            /\ cache' = cache
                 /\ (~live /\ InfoKey \notin DOMAIN inflight) =>
                            /\ cHow'[c] = "fetched"
                            /\ InfoKey \in DOMAIN inflight'
        /\ \A k \in DOMAIN cache :
             (cache[k].age >= INFO_TTL /\ ~(k \in DOMAIN inflight /\ k \notin DOMAIN inflight'))
                => (k \in DOMAIN cache' /\ cache'[k].age >= INFO_TTL) ]_vars

\* C2 witness: one caller holds a result served from the entry, and, the
\* entry's age having reached the ttl exactly, the next caller has started a
\* fetch.
C2_Witness ==
    /\ cPc["r1"] = "done" /\ cHow["r1"] = "hit"
    /\ cPc["r2"] = "waiting" /\ cHow["r2"] = "fetched"
    /\ InfoKey \in DOMAIN cache
    /\ cache[InfoKey].age = INFO_TTL

\* The caller that started the fetch in flight for key.
Leader(key) == CHOOSE c \in inflight[key].waiters : cHow[c] = "fetched"

\* C3: when a fetch fails, the failure is stored only if the fetch was
\* started with cache_errors: the validation of RyzenAdj::new starts it
\* without, so its failure leaves the cache as it was, with no live entry, and
\* the next call fetches again; info() starts it with, so its failure is
\* stored fresh, and a call that finds a stored failure younger than the ttl
\* returns that failure without a fetch.
C3_ErrorCaching ==
    [][ /\ \A key \in DOMAIN inflight :
             (key \notin DOMAIN inflight' /\ ~cRes'[Leader(key)].ok) =>
                /\ (Leader(key) = "new") <=> ~inflight[key].cache_errors
                /\ IF Leader(key) = "new"
                      THEN /\ cache' = cache
                           /\ ~(key \in DOMAIN cache' /\ cache'[key].age < INFO_TTL)
                      ELSE cache'[key] = [res |-> cRes'[Leader(key)], age |-> 0]
        /\ \A c \in CacheCallers :
             (/\ Calls(c)
              /\ InfoKey \in DOMAIN cache
              /\ cache[InfoKey].age < INFO_TTL
              /\ ~cache[InfoKey].res.ok) =>
                /\ cPc'[c] = "done"
                /\ cRes'[c] = cache[InfoKey].res
                /\ inflight' = inflight ]_vars

\* C3 witness: a failure stored by a fetch of info() has been returned from
\* the cache to a later caller within the ttl.
C3_Witness ==
    /\ InfoKey \in DOMAIN cache
    /\ ~cache[InfoKey].res.ok
    /\ cache[InfoKey].age < INFO_TTL
    /\ \E c \in InfoReaders :
         cPc[c] = "done" /\ cHow[c] = "hit" /\ cRes[c] = cache[InfoKey].res

\* C4: at the end of a tick of the framework_tool resolver, after three
\* consecutive failed probes the slot is None, and after a successful probe or
\* resolution it is Some; update_data records the slot's value as it is when
\* it reads, so across the failures it sees Some, then None.
C4_DemoteRestore ==
    /\ [](ftPc = "sleep" =>
            /\ ftStreak >= 3 => framework_tool = "None"
            /\ ftStreak = 0 => framework_tool = "Some")
    /\ [][ guiObs' # guiObs => guiObs'[Len(guiObs')] = framework_tool ]_vars

\* C4 witness: the GUI saw Some, three probes/attempts in a row failed, the
\* slot is None and the GUI has seen None.
C4_Witness ==
    /\ ftPc = "sleep"
    /\ ftStreak >= 3
    /\ framework_tool = "None"
    /\ guiObs = <<"Some", "None">>

\* C5: once AppState::initialize has created a slot, its value changes only
\* in the write step of its own resolver, in which no reader task moves; no
\* task other than a resolver ever holds a write guard.
C5_SoleWriter ==
    [][ /\ (ftPc # "init" /\ framework_tool' # framework_tool) =>
              /\ ftPc = "write" /\ ftPc' = "sleep"
              /\ rdPc' = rdPc /\ guiObs' = guiObs
        /\ (ryzPc \notin {"init", "init_wait"} /\ ryzenadj' # ryzenadj) =>
              /\ ryzPc = "write" /\ ryzPc' = "sleep"
              /\ rdPc' = rdPc /\ guiObs' = guiObs
        /\ \A slot \in Slots : wguards'[slot] = "none" ]_vars

\* C5 witness: the fan-curve loop and a GUI action hold read guards, and the
\* GUI refresh has seen the slot change.
C5_Witness ==
    /\ rdPc["fan_curve"] = "held"
    /\ rdPc["apply_power_settings"] = "held"
    /\ rguards["framework_tool"] = {"fan_curve"}
    /\ rguards["ryzenadj"] = {"apply_power_settings"}
    /\ Len(guiObs) = 2

\* C6: no tick of the ryzenadj resolver passes over a slot that is Some
\* without re-validating the tool.
C6_RevalidatesWhileSome == ryzTick # "skipped"

\* C7: while a slot is None its resolver attempts a resolution again and
\* again, whatever the error count; and if from some point on the tool works,
\* the slot eventually is Some and stays Some.
C7_RetryUntilSome ==
    /\ []<>(framework_tool = "Some" \/ ftPc = "new")
    /\ []<>(ryzenadj = "Some" \/ ryzPc \in {"new", "new_wait", "init", "init_wait"})
    /\ <>[](ftEnv = "good") => <>[](framework_tool = "Some")
    /\ <>[](ryzEnv = "good") => <>[](ryzenadj = "Some")

\* C7 witness: after MaxErrors failed attempts with the slot None, the tool
\* works, FrameworkTool::new() has succeeded and the write of Some is pending.
C7_Witness ==
    /\ ftEnv = "good"
    /\ framework_tool = "None"
    /\ ftErrors = MaxErrors
    /\ ftPc = "write"
    /\ ftCurrent = "None"

\* ---- C8 ----------------------------------------------------------------
\* C8: get_ec_handle tries the device paths in list order and returns the
\* handle of the first path that opens; an access-denied failure before any
\* path opened returns AccessDenied at once, with no later path tried;
\* DriverMissing is returned only when all NumPaths paths were tried and every
\* failure was something other than access-denied.
C8_OpenOrder ==
    \A t \in EcThreads :
        LET tr == ecTried[t]
            r  == ecOpenRes[t]
            n  == Len(tr)
            EarlierFailedOther == \A j \in 1..(n - 1) : tr[j].outcome = "other"
        IN  /\ \A j \in 1..n : tr[j].path = j
            /\ ecPc[t] = "open" => ecIdx[t] = n + 1
            /\ r.res = "pending" =>
                  /\ n < NumPaths
                  /\ \A j \in 1..n : tr[j].outcome = "other"
            /\ r.res = "handle" =>
                  /\ n >= 1
                  /\ tr[n].outcome = "ok"
                  /\ r.path = n
                  /\ EarlierFailedOther
            /\ r.res = "AccessDenied" =>
                  /\ n >= 1
                  /\ tr[n].outcome = "denied"
                  /\ EarlierFailedOther
                  /\ ecPc[t] = "done"
            /\ r.res = "DriverMissing" =>
                  /\ n = NumPaths
                  /\ \A j \in 1..n : tr[j].outcome = "other"

\* Two paths failed with another error, the third with access-denied, and
\* get_ec_handle returned AccessDenied with six paths untried.
C8_Witness ==
    /\ ecOpenRes["t1"].res = "AccessDenied"
    /\ Len(ecTried["t1"]) = 3
    /\ ecRet["t1"].kind = "AccessDenied"

\* ---- C9 ----------------------------------------------------------------
\* C9: every public device operation opens a handle of its own and has closed
\* it when it returns: no returned call owns an open handle, a call past its
\* open holds a handle it opened itself, and no two calls hold the same handle.
C9_HandlePerCall ==
    /\ \A t \in EcThreads :
          ecPc[t] \in {"idle", "done"} =>
              \A h \in DOMAIN openHandles : openHandles[h] # t
    /\ \A t \in EcThreads :
          ecPc[t] = "opened" =>
              /\ ecHandle[t] \in DOMAIN openHandles
              /\ openHandles[ecHandle[t]] = t
    /\ \A t, u \in EcThreads :
          (t # u /\ ecPc[t] = "opened" /\ ecPc[u] = "opened") =>
              ecHandle[t] # ecHandle[u]

\* One call returned IoError (nonzero result code) while a concurrent call
\* holds its own open handle.
C9_Witness ==
    /\ ecPc["t1"] = "done"
    /\ ecRet["t1"].kind = "IoError"
    /\ ecPc["t2"] = "opened"
    /\ DOMAIN openHandles = {ecHandle["t2"]}

\* ---- C10 ---------------------------------------------------------------
\* A send_ec_command call that issued its transfer and returned.
Sent(t) ==
    /\ ecPc[t] = "done"
    /\ ecOp[t].name = "send_ec_command"
    /\ ecFrame[t].io # "none"

FirstBytes(t) ==
    SubSeq(ecFrame[t].buffer, 1, Min(ecFrame[t].returned, CROSEC_CMD_MAX_REQUEST))

\* C10 as stated: whenever the frame's result code after the transfer is
\* nonzero the call returns IoError carrying it; success is returned only for
\* result code 0, with the first min(returned, 256) bytes of the buffer.
C10_Original ==
    \A t \in EcThreads :
        Sent(t) =>
            /\ ecFrame[t].result # 0 =>
                  ecRet[t] = [kind |-> "IoError", code |-> ecFrame[t].result]
            /\ ecRet[t].kind = "Ok" =>
                  /\ ecFrame[t].result = 0
                  /\ ecRet[t].bytes = FirstBytes(t)

\* C10 amended: a transfer that failed with access-denied returns
\* AccessDenied whatever the result code; otherwise a nonzero result code
\* (the untouched 0xFF included) returns IoError carrying it and result code 0
\* returns the first min(returned, 256) bytes of the buffer.
C10_ResultCode ==
    \A t \in EcThreads :
        Sent(t) =>
            /\ ecFrame[t].io = "denied" => ecRet[t] = [kind |-> "AccessDenied"]
            /\ (ecFrame[t].io # "denied" /\ ecFrame[t].result # 0) =>
                  ecRet[t] = [kind |-> "IoError", code |-> ecFrame[t].result]
            /\ (ecFrame[t].io # "denied" /\ ecFrame[t].result = 0) =>
                  ecRet[t] = [kind |-> "Ok", bytes |-> FirstBytes(t)]
            /\ ecRet[t].kind = "Ok" => ecFrame[t].result = 0

\* The transfer failed with an error other than access-denied, the device
\* left the initial 0xFF in place, and the call returned IoError(255).
C10_Witness ==
    /\ Sent("t1")
    /\ ecFrame["t1"].io = "error"
    /\ ecFrame["t1"].result = RESULT_INIT
    /\ ecRet["t1"] = [kind |-> "IoError", code |-> RESULT_INIT]


\* ---- C11 ---------------------------------------------------------------
\* The payload as it lies in the zero-initialised frame buffer.
Framed(data) == CopyFromSlice(ZeroBuf(CROSEC_CMD_MAX_REQUEST), data)

\* C11: when the device echoes the frame with result 0 and reports n bytes,
\* send_ec_command returns exactly the first min(n, 256) bytes of the framed
\* payload, whatever the device left in the buffer from position n on; with
\* n = len(p) this is the payload p itself.
C11_RoundTrip ==
    \A t \in EcThreads :
       (Sent(t) /\ ecFrame[t].io = "ok" /\ ecFrame[t].result = 0) =>
          LET n == ecFrame[t].returned
              p == ecOp[t].data
          IN  /\ ecRet[t].kind = "Ok"
              /\ ecRet[t].bytes = SubSeq(Framed(p), 1, Min(n, CROSEC_CMD_MAX_REQUEST))
              /\ n = Len(p) => ecRet[t].bytes = p

\* C11 witness: the two-byte payload came back from a device that reported
\* 2 bytes and left junk in the rest of the buffer.
C11_Witness ==
    /\ Sent("t1")
    /\ ecOp["t1"].data = <<75, 80>>
    /\ ecFrame["t1"].returned = 2
    /\ ecFrame["t1"].buffer[3] = 170
    /\ ecRet["t1"] = [kind |-> "Ok", bytes |-> <<75, 80>>]


\* ---- C12 ---------------------------------------------------------------
\* C12: no call of read_ec_memory or send_ec_command panics, whatever the
\* payload or the length passed: every call ends with a typed result.
C12_TypedResult == \A t \in EcThreads : ecPc[t] # "panicked"

\* ---- C13 ---------------------------------------------------------------
\* C13: a read_ec_memory call whose read-memory control operation failed
\* returns a failure, never a byte sequence.
C13_FailureReported ==
    \A t \in EcThreads :
       (/\ ecPc[t] = "done"
        /\ ecOp[t].name = "read_ec_memory"
        /\ ecFrame[t].io = "error") => ecRet[t].kind = "None"


\* ---- C14 ---------------------------------------------------------------
\* A raw byte that stands for a temperature strictly between -50 and 150.
ValidTempByte(b) == b < 252 /\ -50 < b - 73 /\ b - 73 < 150

\* The temperatures of a decoded sensor list.
SensorTemps(sensors) == [i \in 1..Len(sensors) |-> sensors[i].temp_c]

\* The values b - 73 of the valid bytes of a raw sequence, in input order.
ExpectedTemps(bytes) ==
    LET kept == SelectSeq(bytes, ValidTempByte)
    IN  [i \in 1..Len(kept) |-> kept[i] - 73]

\* C14: the decoded temperatures are, in input order, exactly b - 73 for the
\* bytes b < 0xFC with -50 < b - 73 < 150, every other byte being dropped;
\* [73, 0xFF, 120] decodes to [0, 47] and byte 223 (150 degrees) is dropped.
\* The same holds for the sensors of FrameworkTool::read_thermal.
C14_TempDecode ==
    /\ (calc.fn = "read_temps" /\ calc.in.kind = "Some") =>
          /\ calc.out = ExpectedTemps(calc.in.bytes)
          /\ calc.in.bytes = <<73, 255, 120>> => calc.out = <<0, 47>>
          /\ \A i \in 1..Len(calc.out) : calc.out[i] # 150
    /\ (calc.fn = "read_thermal" /\ calc.out.kind = "Ok") =>
          SensorTemps(calc.out.sensors) = ExpectedTemps(calc.in[1].bytes)

\* C14 witness: [73, 0xFF, 120] has been decoded to [0, 47].
C14_Witness ==
    /\ calc.fn = "read_temps"
    /\ calc.in = [kind |-> "Some", bytes |-> <<73, 255, 120>>]
    /\ calc.out = <<0, 47>>

\* ---- C15 ---------------------------------------------------------------
NotAbsent(rpm) == rpm # 65535

\* The little-endian values of the 4 byte pairs that are not 0xFFFF, in order.
ExpectedFans(bytes) ==
    SelectSeq([k \in 1..4 |-> bytes[2 * k - 1] + 256 * bytes[2 * k]], NotAbsent)

\* C15: the decoded RPM list of an 8-byte fan block is, in order, the
\* little-endian u16 of each of the 4 pairs that is not 0xFFFF; a 0 is kept;
\* [00 10, FF FF, 20 03, 00 00] decodes to [4096, 800, 0].  The same holds
\* for the fans of FrameworkTool::read_thermal.
C15_FanDecode ==
    /\ (calc.fn = "read_fans" /\ calc.in.kind = "Some") =>
          /\ calc.out = ExpectedFans(calc.in.bytes)
          /\ calc.in.bytes = <<0, 16, 255, 255, 32, 3, 0, 0>> =>
                calc.out = <<4096, 800, 0>>
    /\ (calc.fn = "read_thermal" /\ calc.out.kind = "Ok") =>
          calc.out.fans = ExpectedFans(calc.in[2].bytes)

\* C15 witness: [00 10, FF FF, 20 03, 00 00] has been decoded to [4096, 800, 0].
C15_Witness ==
    /\ calc.fn = "read_fans"
    /\ calc.in = [kind |-> "Some", bytes |-> <<0, 16, 255, 255, 32, 3, 0, 0>>]
    /\ calc.out = <<4096, 800, 0>>

\* ---- C16 ---------------------------------------------------------------
\* C16: for every max in 0..255 set_charge_limit hands send_ec_command the
\* command 0x30 and the payload [min, max] with min = max - 5 when max >= 5
\* and 0 otherwise, both of them bytes; FrameworkTool::charge_limit_set
\* computes the same min.
C16_ChargeLimit ==
    calc.fn = "set_charge_limit" =>
       LET max == calc.in
           min == IF max >= 5 THEN max - 5 ELSE 0
       IN  /\ calc.out.ec.command = 48
           /\ calc.out.ec.data = <<min, max>>
           /\ min \in 0..255 /\ max \in 0..255
           /\ calc.out.tool = [min_pct |-> min, max_pct |-> max]

\* C16 witness: a limit below 5 has been sent with min floored at 0.
C16_Witness ==
    /\ calc.fn = "set_charge_limit"
    /\ calc.in = 3
    /\ calc.out.ec.data = <<0, 3>>


\* ---- C17 ---------------------------------------------------------------
\* The lines of a dump that are table rows with a numeric value and a name
\* that contains, in any case, one of the three power-limit names.
PowerRows(text) ==
    { i \in 1..Len(text) :
        /\ text[i].bar /\ ~text[i].sep /\ Len(text[i].parts) >= 3
        /\ text[i].parts[3].kind = "num"
        /\ \E pat \in { <<"STAPM", "LIMIT">>, <<"PPT", "LIMIT", "FAST">>,
                        <<"PPT", "LIMIT", "SLOW">> } :
             Contains([k \in 1..Len(text[i].parts[2]) |-> Upper(text[i].parts[2][k])], pat) }

C18_UnsetNotZero ==
    /\ (calc.fn = "read_power_info" /\ calc.in.some /\ ~calc.in.v.battery.some) =>
          /\ calc.out.kind = "Ok" => calc.out.charge_percent # 0
          /\ calc.out.kind = "Ok" => calc.out.capacity_current # 0
          /\ calc.out.kind = "Ok" => calc.out.voltage # 0
          /\ calc.out.kind = "Ok" => calc.out.current # 0
    /\ (calc.fn = "parse_info" /\ PowerRows(calc.in) = {}) => calc.out.tdp_watts = None

\* ---- C19 ---------------------------------------------------------------
\* C19: on a curve sorted ascending by temperature, the computed duty is the
\* first point's duty for a temperature below the first point, the last
\* point's duty for a temperature above the last point, and exactly the duty
\* of a point whose temperature the reading equals.
C19_Interpolation ==
    (calc.fn \in {"apply_fan_curve", "interpolate_curve"} /\ calc.in.curve # << >>) =>
       LET curve == calc.in.curve
           t == calc.in.t
       IN  /\ t < curve[1].t => calc.out = curve[1].d
           /\ t > curve[Len(curve)].t => calc.out = curve[Len(curve)].d
           /\ (\E k \in 1..Len(curve) : curve[k].t = t) =>
                 \E k \in 1..Len(curve) : curve[k].t = t /\ calc.out = curve[k].d

\* ---- C20 ---------------------------------------------------------------
\* C20: between two consecutive ticks of the fan-curve loop that command a
\* duty, the commanded duty changes by at most the configured
\* rate_limit_pct_per_step.
C20_RateLimited ==
    (calc.fn = "run_fan_curve_service" /\ calc.out.some /\ calc.last.some) =>
       Abs(calc.out.v - calc.last.v) <= calc.in.rate_limit_pct_per_step

\* ---- C24 ---------------------------------------------------------------
\* The readings of a sample.
Readings(sensors) == { sensors[i] : i \in 1..Len(sensors) }

\* C24: on a tick that read a non-empty thermal sample, the temperature fed
\* to the curve is one of the sample's readings and no reading is above it,
\* and the commanded duty is the curve's duty for that temperature.
C24_HottestGoverns ==
    /\ (calc.fn = "run_fan_curve_service" /\ calc.thermal.some
          /\ calc.thermal.v.kind = "Ok" /\ calc.thermal.v.sensors # << >>) =>
          /\ calc.max_temp.some
          /\ calc.max_temp.v \in Readings(calc.thermal.v.sensors)
          /\ \A r \in Readings(calc.thermal.v.sensors) : r <= calc.max_temp.v
          /\ calc.out = Some(AsU32(CurveLoop(fan_curve, calc.max_temp.v, 1)))
    /\ (calc.fn = "max_temp" /\ calc.in # << >>) =>
          /\ calc.out \in Readings(calc.in)
          /\ \A r \in Readings(calc.in) : r <= calc.out

\* C24 witness: a tick read the sample [90, 40], whose hottest sensor comes
\* first, and commanded the duty for 90.
C24_Witness ==
    /\ calc.fn = "run_fan_curve_service"
    /\ calc.thermal = Some([kind |-> "Ok", sensors |-> <<90, 40>>])
    /\ calc.max_temp = Some(90)
    /\ calc.out = Some(100)

\* ---- C27 ---------------------------------------------------------------
\* C27: on a non-empty curve sorted ascending by temperature, duplicate
\* temperatures included, the loop ends by its first-point, last-point or
\* segment test, never with the fallback 50, and the segment it interpolates
\* on has t2 # t1, so the result is a number.
C27_OneRuleDecides ==
    (calc.fn = "apply_fan_curve" /\ calc.in.curve # << >>) =>
       LET curve == calc.in.curve
           r == calc.rule
       IN  /\ r.rule \in {"first", "last", "segment"}
           /\ r.rule = "segment" => curve[r.i + 1].t # curve[r.i].t
           /\ calc.out.kind = "f32"

\* C27 witness: a reading equal to a temperature that two points of the
\* curve share was decided by a segment ending at the first of them.
C27_Witness ==
    /\ calc.fn = "apply_fan_curve"
    /\ Len(calc.in.curve) = 3
    /\ calc.in.curve[2].t = calc.in.t
    /\ calc.in.curve[3].t = calc.in.t
    /\ calc.rule = [rule |-> "segment", i |-> 1]

\* ---- C28 ---------------------------------------------------------------
\* C28: on every curve sorted ascending by temperature and every temperature
\* the loop-based interpolation computes the duty the bracket-based
\* interpolation computes.
C28_SameDuty ==
    calc.fn = "apply_fan_curve" =>
       calc.out = interpolate_curve(calc.in.curve, calc.in.t)

\* ---- C23 ---------------------------------------------------------------
\* The validation call of RyzenAdj::new has returned the successful result of
\* a run it started itself.
ValidatedNow ==
    /\ cPc["new"] = "done"
    /\ cRes["new"].ok
    /\ cHow["new"] = "fetched"

\* C23: RyzenAdj::new returns a handle only when its own validation run of
\* the resolved executable succeeded; when the executable is not found or
\* the validation fails, new fails and the slot stays None.  So the slot
\* goes from None to Some only with a handle validated by the call that
\* produced it.
C23_ValidatedHandle ==
    [][ /\ (ryzPc # "write" /\ ryzPc' = "write") =>
              (ryzPc = "new_wait" /\ ValidatedNow)
        /\ (ryzenadj = "None" /\ ryzenadj' = "Some") =>
              (ryzPc = "write" \/ (ryzPc = "init_wait" /\ ValidatedNow))
        /\ (ryzPc \in {"init_wait", "new_wait"} /\ cPc["new"] = "done"
               /\ ~cRes["new"].ok /\ ryzPc' # ryzPc) =>
              (ryzenadj' = "None" /\ ryzPc' \in {"loop", "sleep"})
        /\ (ryzPc \in {"init", "new"} /\ ryzPc' \in {"loop", "sleep"}) =>
              ryzenadj' = "None"
      ]_vars

\* C23 witness: after a failed attempt the resolver's RyzenAdj::new has
\* validated the executable and the write of Some is pending on a None slot.
C23_Witness ==
    /\ ryzPc = "write"
    /\ ryzenadj = "None"
    /\ ryzErrors >= 1

\* C21: a failed thermal read or a failed set_fan_duty ends the tick and
\* nothing else: no loop ever ends, the loop that failed goes to its sleep
\* with the slots, the supervisor and the cache as they were, it is left in
\* the state a successful tick leaves it in, and after the sleep it starts the
\* next tick by locking the slot.
C21_FailedTickSkipped ==
    [][ /\ Len(fan_loops') >= Len(fan_loops)
        /\ \A i \in 1..Len(fan_loops) :
             LET l == fan_loops[i]
                 after == fan_loops'[i]
                 asleep == [l EXCEPT !.pc = "sleep", !.max_temp = None]
             IN  /\ after.pc \in {"lock", "thermal", "duty", "sleep"}
                 /\ (l.pc = "thermal" /\ after.pc \notin {"thermal", "duty"}) =>
                       /\ after = asleep
                       /\ UNCHANGED <<framework_tool, ryzenadj, ftVars, ryzVars, cacheVars, fan_cmd>>
                 /\ (l.pc = "duty" /\ after.pc # "duty") =>
                       /\ after = asleep
                       /\ fan_cmd'.some /\ fan_cmd'.v.by = i
                       /\ UNCHANGED <<framework_tool, ryzenadj, ftVars, ryzVars, cacheVars>>
                 /\ (l.pc = "sleep" /\ after.pc # "sleep") =>
                       after = [l EXCEPT !.pc = "lock"]
      ]_vars

\* A loop is in the body of a tick again after its own write failed.
C21_Witness ==
    \E i \in 1..Len(fan_loops) :
        /\ fan_loops[i].pc = "duty"
        /\ fan_cmd.some /\ fan_cmd.v.by = i /\ ~fan_cmd.v.ok

\* C22: a tick writes the duty it computed through the handle of the device
\* slot (framework_tool) when that slot is Some, otherwise through the CLI
\* tool when its slot (ryzenadj) is Some; with both slots None it reads no
\* temperature and writes nothing.
C22_BackendOrder ==
    [][ \A i \in 1..Len(fan_loops) :
          LET l == fan_loops[i]
              after == fan_loops'[i]
          IN  /\ (l.pc = "lock" /\ after.pc = "sleep") =>
                    (framework_tool = "None" /\ ryzenadj = "None")
              /\ (l.pc = "lock" /\ after.pc # "lock"
                    /\ framework_tool = "None" /\ ryzenadj = "None") =>
                    (after.pc = "sleep" /\ fan_cmd' = fan_cmd)
              /\ (l.pc = "duty" /\ after.pc # "duty") =>
                    /\ framework_tool = "Some"
                    /\ fan_cmd'.some
                    /\ fan_cmd'.v.op = "set_fan_duty" /\ fan_cmd'.v.by = i
                    /\ fan_cmd'.v.duty = LoopDuty(l, l.max_temp.v, fan_gui.build)
      ]_vars

\* C25: from the default curve of six points, whatever Remove and Add Point
\* buttons are clicked, the curve keeps at least 2 and at most 10 points.
C25_CurveSize ==
    /\ Len(fan_gui.fan_curve) >= 2
    /\ Len(fan_gui.fan_curve) <= 10

\* The curve has grown to ten points after points were removed from it.
C25_Witness ==
    /\ Len(fan_gui.fan_curve) = 10
    /\ fan_gui.fan_curve[1].t # 40

\* C26: every curve an interpolation is performed on is sorted by temperature:
\* the snapshot of each loop apply_fan_curve spawned, and the curve Add Point
\* passed to interpolate_curve.
C26_SortedWhenUsed ==
    /\ \A i \in 1..Len(fan_loops) : Sorted(fan_loops[i].curve)
    /\ fan_gui.interp.some => Sorted(fan_gui.interp.v)

\* The steps of a loop: lock, thermal read, write, sleep, and round again.
LoopSteps ==
    { <<"lock", "thermal">>, <<"lock", "sleep">>, <<"thermal", "duty">>,
      <<"thermal", "sleep">>, <<"duty", "sleep">>, <<"sleep", "lock">> }

\* C30: a loop spawned by apply_fan_curve is never ended or changed by what
\* the GUI does afterwards (reset_fan_to_auto, apply_fan_speed, another
\* apply_fan_curve, edits of the curve): it keeps its own snapshot, goes on
\* round its ticks, and each set_fan_duty it issues carries the duty of its own
\* snapshot; every further apply_fan_curve appends one more loop beside it.
C30_LoopsKeepCommanding ==
    [][ LET n == Len(fan_loops) IN
        /\ Len(fan_loops') \in {n, n + 1}
        /\ Len(fan_loops') = n + 1 =>
              fan_loops'[n + 1] = [task |-> "fan_curve", pc |-> "lock", max_temp |-> None,
                                   curve |-> fan_gui'.fan_curve]
        /\ \A i \in 1..n :
             LET l == fan_loops[i]
                 after == fan_loops'[i]
             IN  /\ after.curve = l.curve
                 /\ after.pc # l.pc => <<l.pc, after.pc>> \in LoopSteps
                 /\ (fan_gui' # fan_gui \/ fan_tasks' # fan_tasks) => after = l
                 /\ (l.pc = "duty" /\ after.pc # "duty") =>
                       /\ fan_cmd'.some
                       /\ fan_cmd'.v.op = "set_fan_duty" /\ fan_cmd'.v.by = i
                       /\ fan_cmd'.v.duty =
                            AsU32(IF fan_gui.build = "fan_curve_methods"
                                     THEN interpolate_curve(l.curve, l.max_temp.v)
                                     ELSE CurveLoop(l.curve, l.max_temp.v, 1))
      ]_vars

\* Two loops with different snapshots are both about to write, after
\* reset_fan_to_auto has switched the fan to automatic control.
C30_Witness ==
    /\ Len(fan_loops) = 2
    /\ fan_loops[1].pc = "duty" /\ fan_loops[2].pc = "duty"
    /\ fan_loops[1].curve # fan_loops[2].curve
    /\ fan_gui.auto_fan /\ fan_tasks = {}
    /\ fan_cmd.some /\ fan_cmd.v.op = "autofanctrl" /\ fan_cmd.v.ok

\* ---- C29 ---------------------------------------------------------------
\* The tasks that take locks on the slots.
LockTasks == Readers \cup {ResolverTask(slot) : slot \in Slots}

\* The slots on which a task holds a guard.
GuardsOf(task) ==
    {slot \in Slots : task \in rguards[slot] \/ wguards[slot] = task}

\* The slot a task is suspended on in `.read().await` / `.write().await`.
WaitsOn(task) ==
    IF task \in Readers
        THEN IF rdPc[task] = "lock" THEN {ReaderSlot(task)} ELSE {}
        ELSE {slot \in Slots : ResolverTask(slot) = task /\ WriterWaiting(slot)}

\* The tasks holding a guard on a slot.
Holders(slot) == {task \in LockTasks : slot \in GuardsOf(task)}

\* No task requests a lock while it holds a guard (on another slot, or a read
\* guard on the slot it wants to write), no task holds guards on two slots,
\* and whenever a task waits for a slot whose guards are held, one of the
\* holders is running, not waiting for a lock itself.
C29_NoHoldAndWait ==
    /\ \A task \in LockTasks :
          /\ Cardinality(GuardsOf(task)) <= 1
          /\ WaitsOn(task) # {} => GuardsOf(task) = {}
    /\ \A slot \in Slots :
          (\E task \in LockTasks : slot \in WaitsOn(task)) =>
              \/ Holders(slot) = {}
              \/ \E h \in Holders(slot) : WaitsOn(h) = {}

====
